---- MODULE Spec2Model ----
(***************************************************************************)
(* A model of github.com/juju/testing: the CleanupSuite of cleanup.go (two *)
(* stacks of deferred actions, unwound at TearDownTest / TearDownSuite,    *)
(* with the patches of a variable and of an environment variable that      *)
(* register their restore on them) and the Stub call recorder of stub.go   *)
(* (recorded calls, receivers, the queue of programmed errors and the      *)
(* checks of the recorded calls), the legacy Fake of fake.go, the hook of  *)
(* a command-output function of cmd.go, the test tags of tags.go, the      *)
(* OsEnvSuite of osenv.go and the MgoInstance of mgo.go.                   *)
(***************************************************************************)
EXTENDS Integers, Sequences, FiniteSets, TLC

(***************************************************************************)
(* Bounds of the model.                                                    *)
(***************************************************************************)
\* Calls made on one CleanupSuite in one behaviour.
MaxOps == 6
\* Cleanup functions created in one behaviour (each has its own identity).
MaxCleanups == 4
\* Tests the runner starts in one suite, when it delivers the signals in order.
MaxTests == 2

\* Calls recorded on one Stub in one behaviour.
MaxCalls == 3
\* Length of the sequence of errors given to SetErrors.
MaxErrs == 2
\* Calls of NextErr after one SetErrors.
MaxNext == 3
\* Calls of CheckCalls and CheckCall on one Stub in one behaviour.
MaxChecks == 1
\* Size of the Stub's history (calls recorded, errors programmed, NextErr
\* calls, checks) up to which every operation is called in any order.
MaxFrame == 3

\* Calls of faked methods on one Fake in one behaviour.
MaxFakeCalls == 4

\* Hooks put on one command-output function in one behaviour.
MaxHooks == 2
\* Calls of the command-output function in one behaviour.
MaxHookCalls == 3

\* --tags flags on one command line.
MaxFlags == 2
\* Tags given to one call of CheckTag or MatchTag.
MaxTags == 2

\* Calls made on one MgoInstance in one behaviour.
MaxMgoOps == 3

\* const maxStartMongodAttempts (mgo.go:66).
maxStartMongodAttempts == 5

\* The nil pointer / nil interface value of Go.
Nil == "nil"
\* The address of the CleanupSuite that the test runner holds.
Self == "S"
\* The address of the by-value copy a non-pointer receiver method works on.
CopyAddr == "copy"

\* The state of an environment variable that is not set.
Unset == "<unset>"

PanicNoSuite == "unsafe to call AddCleanup without a Suite"
PanicNonPointer == "unsafe to call AddCleanup from non pointer receiver test"
NoPanic == ""

VARIABLES
    \* ---- CleanupSuite (cleanup.go:18-23) ----
    testStack,      \* s.testStack: sequence of cleanup functions
    suiteStack,     \* s.suiteStack
    suiteSuite,     \* s.suiteSuite: Nil or a pointer
    testSuite,      \* s.testSuite
    \* ---- what a caller of the CleanupSuite observes ----
    ran,            \* the cleanup functions run so far, in order, with the
                    \* teardown that ran each
    panicMsg,       \* the panic of the last call, NoPanic when it returned
    lastOp,         \* the last call made: [name, id]
    nops,           \* number of calls made
    nextId,         \* identity of the next cleanup function created
    dest,           \* the variable test code patches with PatchValue
    env,            \* the environment variable test code patches with
                    \* PatchEnvironment: Unset or its value
    \* ---- history of the calls made (independent of the code's fields) ----
    suiteActive,    \* the last suite signal that returned was SetUpSuite
    testActive,     \* the last test signal that returned was SetUpTest
    lifecycle,      \* position in SetUpSuite (SetUpTest TearDownTest)* TearDownSuite
    testNo,         \* number of SetUpTest calls so far
    regs,           \* per cleanup identity: how and when it was handed to AddCleanup
    patched,        \* per cleanup identity: the patch that registered it
    runner          \* who delivers the signals: "gocheck" (in the order of the
                    \* lifecycle) or "any" (test code, in any order)

    ,
    \* ---- Stub (stub.go:89-113) ----
    Calls,          \* f.Calls: sequence of StubCall [FuncName, Args]
    Receivers,      \* f.Receivers
    Errors,         \* f.Errors: sequence of errors, Nil for a nil error
    DefaultError,   \* f.DefaultError
    \* ---- what a caller of the Stub observes ----
    ret,            \* what the last call returned: the error of NextErr or of
                    \* a stubbed method, Nil for a call that returns nothing
    stubOp,         \* the last call made on the stub: its name
    \* ---- history of the calls made on the stub ----
    made,           \* the AddCall / MethodCall invocations, in order, as made
    programmed,     \* the sequence given to the last SetErrors
    nextCount,      \* NextErr calls since the last SetErrors
    callsSinceSet,  \* calls recorded since the last SetErrors
    dropped,        \* errors still pending when the last call, a SetErrors, was
                    \* made; 0 after any other call
    \* ---- what a caller of CheckCalls / CheckCall observes ----
    nchecks,        \* number of checks made
    checked,        \* the last check made: its name and its arguments
    failures,       \* failed checks the last call reported to gocheck (c.Check)
    checkPanic      \* the panic of the last call on the stub, NoPanic when it returned

VARIABLES
    \* ---- Fake (fake.go:62-67) ----
    fakeCalls,      \* f.calls: sequence of FakeCall [FuncName, Args]
    Err,            \* f.Err
    FailOnCall,     \* f.FailOnCall
    \* ---- what the callers of the faked methods observe ----
    fakeRets,       \* what Error returned to each faked method, in call order
    fakeOp          \* the last call made on the fake: its name

cleanupVars == <<testStack, suiteStack, suiteSuite, testSuite, ran, panicMsg,
                 lastOp, nops, nextId, dest, env, suiteActive, testActive,
                 lifecycle, testNo, regs, patched, runner>>

stubVars == <<Calls, Receivers, Errors, DefaultError, ret, stubOp, made,
              programmed, nextCount, callsSinceSet, dropped, nchecks, checked,
              failures, checkPanic>>

VARIABLES
    \* ---- HookCommandOutput (cmd.go:175-195) ----
    HookChannelSize, \* var HookChannelSize: the capacity of the channel of the
                    \* hooks made from now on
    outputFunc,     \* *outputFunc: 0 for the function test code put there, h
                    \* for the function the h-th HookCommandOutput put there
    hooks,          \* per HookCommandOutput call made, what its closures hold:
                    \* origCommandOutput, output, err, and the channel cmdChan
                    \* (the commands buffered in it, and whether it is closed)
    sending,        \* the call of *outputFunc blocked in `cmdChan <- cmd`: its
                    \* command and its hook, NoSend when none is
    \* ---- what test code observes ----
    received,       \* per hook, the commands received from its channel, in order
    outputCalls,    \* the calls of *outputFunc that returned or panicked, in
                    \* call order: the command, the function called, the result
    hookedWith,     \* per hook, the function *outputFunc held when it was made
                    \* and the output and err it was made with
    hookOp,         \* the last operation: [name, hook]
    hookPanic       \* the panic of the last operation, NoPanic when it returned

VARIABLES
    \* ---- tags (tags.go:68-82) ----
    rawTags,        \* var rawTags tagsValue: [raw, smoke, parsed]; each flag
                    \* value of raw is the sequence of its entries between
                    \* commas, and parsed is <<>> for a nil slice
    \* ---- what a caller of CheckTag / MatchTag observes ----
    tagOp,          \* the last call: [name, required, tags]
    tagged,         \* what the last CheckTag returned
    matched         \* what the last MatchTag returned

VARIABLES
    \* ---- OsEnvSuite (osenv.go:16-18) and the process it runs in ----
    oldEnvironment, \* s.oldEnvironment: a map from names to values
    environ,        \* the environment of the process: a map from the names
                    \* of the variables that are set to their values
    GOOS,           \* runtime.GOOS
    \* ---- history of the calls made ----
    osEnvAt,        \* position in SetUpSuite (SetUpTest TearDownTest)* TearDownSuite
    osEnvOp,        \* the last call made
    atSetUpSuite,   \* the environment of the process when SetUpSuite was called
    written         \* the names test code has set or unset since SetUpSuite

VARIABLES
    \* ---- MgoInstance (mgo.go:85-122) ----
    inst,           \* the instance: [addr, port, server, dir, EnableReplicaSet];
                    \* server is Nil or the mongod process that runs
    \* ---- what a caller of the MgoInstance observes ----
    mgoOp,          \* the last call made: its name, and for a call that
                    \* started mongod how each attempt went
    mgoErr,         \* the error the last call returned, Nil for none
    mgoPanic,       \* the panic of the last call, NoPanic when it returned
    mgoOps          \* number of calls made

fakeVars == <<fakeCalls, Err, FailOnCall, fakeRets, fakeOp>>

\* The components other than the CleanupSuite and the Stub.
hookVars == <<HookChannelSize, outputFunc, hooks, sending, received, outputCalls, hookedWith,
              hookOp, hookPanic>>

tagVars == <<rawTags, tagOp, tagged, matched>>

osEnvVars == <<oldEnvironment, environ, GOOS, osEnvAt, osEnvOp, atSetUpSuite,
               written>>

mgoVars == <<inst, mgoOp, mgoErr, mgoPanic, mgoOps>>

restVars == <<fakeVars, hookVars, tagVars, osEnvVars, mgoVars>>

vars == <<cleanupVars, stubVars, restVars>>

(***************************************************************************)
(* Helpers on sequences.                                                   *)
(***************************************************************************)
RECURSIVE Reverse(_)
Reverse(s) == IF s = <<>> THEN <<>> ELSE Append(Reverse(Tail(s)), Head(s))

(***************************************************************************)
(* The CleanupSuite as a value: the four fields of the struct.             *)
(***************************************************************************)
Suite == [testStack |-> testStack, suiteStack |-> suiteStack,
          suiteSuite |-> suiteSuite, testSuite |-> testSuite]

\* A cleanup function.  kind "log" appends its identity to the log when run
\* (cleanup_test.go:34-39); kind "reg" does so and then calls AddCleanup with
\* a new "log" cleanup (a cleanup that registers a cleanup).
Cleanup(id, kind) == [id |-> id, kind |-> kind]
CleanupKinds == {"log", "reg"}

\* The cleanup function PatchValue (kind "value") or PatchEnvironment (kind
\* "env") registers: it calls restore(), which writes back the value old.
Restorer(id, kind, old) == [id |-> id, kind |-> kind, old |-> old]

\* Number of cleanups of kind "reg" on a stack: the identities its unwinding uses.
NumReg(stack) == Cardinality({i \in 1..Len(stack) : stack[i].kind = "reg"})

(***************************************************************************)
(* AddCleanup (cleanup.go:54-80) on the struct value o, called through     *)
(* the pointer `self`.  Result: the struct after the call and the panic.   *)
(***************************************************************************)
\* AddCleanup as the separate AddSuiteCleanup of earlier versions: every
\* accepted cleanup goes to the suite stack.
AddCleanupSuiteOnly(o, self, cleanup) ==
    IF o.suiteSuite = Nil
    THEN [o |-> o, panic |-> PanicNoSuite]
    ELSE IF self # o.suiteSuite
    THEN [o |-> o, panic |-> PanicNonPointer]
    ELSE [o |-> [o EXCEPT !.suiteStack = Append(@, cleanup)], panic |-> NoPanic]

\* AddCleanup without the test of s.testSuite: every accepted cleanup goes to
\* the test stack.
AddCleanupTestOnly(o, self, cleanup) ==
    IF o.suiteSuite = Nil
    THEN [o |-> o, panic |-> PanicNoSuite]
    ELSE IF self # o.suiteSuite
    THEN [o |-> o, panic |-> PanicNonPointer]
    ELSE [o |-> [o EXCEPT !.testStack = Append(@, cleanup)], panic |-> NoPanic]

\* AddCleanup without the test of s.suiteSuite == nil.
AddCleanupNoSuiteCheck(o, self, cleanup) ==
    IF self # o.suiteSuite
    THEN [o |-> o, panic |-> PanicNonPointer]
    ELSE IF o.testSuite = Nil
    THEN [o |-> [o EXCEPT !.suiteStack = Append(@, cleanup)], panic |-> NoPanic]
    ELSE [o |-> [o EXCEPT !.testStack = Append(@, cleanup)], panic |-> NoPanic]

\* AddCleanup without the test of s != s.suiteSuite.
AddCleanupNoPointerCheck(o, self, cleanup) ==
    IF o.suiteSuite = Nil
    THEN [o |-> o, panic |-> PanicNoSuite]
    ELSE IF o.testSuite = Nil
    THEN [o |-> [o EXCEPT !.suiteStack = Append(@, cleanup)], panic |-> NoPanic]
    ELSE [o |-> [o EXCEPT !.testStack = Append(@, cleanup)], panic |-> NoPanic]

\* AddCleanup putting the cleanup under the ones registered before it.
AddCleanupAtFront(o, self, cleanup) ==
    IF o.suiteSuite = Nil
    THEN [o |-> o, panic |-> PanicNoSuite]
    ELSE IF self # o.suiteSuite
    THEN [o |-> o, panic |-> PanicNonPointer]
    ELSE IF o.testSuite = Nil
    THEN [o |-> [o EXCEPT !.suiteStack = <<cleanup>> \o @], panic |-> NoPanic]
    ELSE [o |-> [o EXCEPT !.testStack = <<cleanup>> \o @], panic |-> NoPanic]

\* AddCleanup looking for a suite only when no test is active.
AddCleanupTestSuffices(o, self, cleanup) ==
    IF o.suiteSuite = Nil /\ o.testSuite = Nil
    THEN [o |-> o, panic |-> PanicNoSuite]
    ELSE IF self # o.suiteSuite
    THEN [o |-> o, panic |-> PanicNonPointer]
    ELSE IF o.testSuite = Nil
    THEN [o |-> [o EXCEPT !.suiteStack = Append(@, cleanup)], panic |-> NoPanic]
    ELSE [o |-> [o EXCEPT !.testStack = Append(@, cleanup)], panic |-> NoPanic]

AddCleanup(o, self, cleanup) ==
    IF o.suiteSuite = Nil
    THEN [o |-> o, panic |-> PanicNoSuite]
    ELSE IF self # o.suiteSuite
    THEN [o |-> o, panic |-> PanicNonPointer]
    ELSE IF o.testSuite = Nil
    THEN [o |-> [o EXCEPT !.suiteStack = Append(@, cleanup)], panic |-> NoPanic]
    ELSE [o |-> [o EXCEPT !.testStack = Append(@, cleanup)], panic |-> NoPanic]

\* What the history records of one AddCleanup call: how it was made ("direct":
\* by test code through the pointer, "value": through a by-value copy,
\* "TearDownTest" or "TearDownSuite": by a cleanup function while that
\* teardown unwinds), whether it returned, and the signals delivered before it.
Reg(how, res) ==
    [how |-> how, ok |-> res.panic = NoPanic, tActive |-> testActive,
     sActive |-> suiteActive, test |-> testNo, life |-> lifecycle]

(***************************************************************************)
(* Running one cleanup function during the teardown `by`.  st is the state *)
(* the teardown works on: [o, ran, regs, nextId, dest, env, panic].        *)
(***************************************************************************)
RunCleanup(cl, by, st) ==
    LET logged == [st EXCEPT !.ran = Append(@, [id |-> cl.id, by |-> by, test |-> testNo])]
    IN  IF cl.kind = "reg"
        THEN LET res == AddCleanup(logged.o, Self, Cleanup(st.nextId, "log"))
             IN  [logged EXCEPT !.o = res.o,
                                !.panic = res.panic,
                                !.nextId = @ + 1,
                                !.regs = [@ EXCEPT ![st.nextId] = Reg(by, res)]]
        ELSE IF cl.kind = "value" THEN [logged EXCEPT !.dest = cl.old]
        ELSE IF cl.kind = "env" THEN [logged EXCEPT !.env = cl.old]
        ELSE logged

RECURSIVE callFrom(_, _, _, _)
\* stack[i], stack[i-1], ..., stack[1]; a panic ends the loop.
callFrom(stack, i, by, st) ==
    IF i = 0 \/ st.panic # NoPanic THEN st
    ELSE callFrom(stack, i - 1, by, RunCleanup(stack[i], by, st))

\* callStack running the slice from its first element to its last.
callStackForward(stack, by, st) == callFrom(Reverse(stack), Len(stack), by, st)

\* callStack whose loop ends at i > 0: the cleanup registered first is not run.
callStackSkipFirst(stack, by, st) ==
    IF stack = <<>> THEN st ELSE callFrom(Tail(stack), Len(stack) - 1, by, st)

\* callStack reading the top of the stack before its loop tests the index.
callStackReadingTop(stack, by, st) ==
    IF stack = <<>>
    THEN [st EXCEPT !.panic = "runtime error: index out of range"]
    ELSE callFrom(stack, Len(stack), by, st)

\* callStack (cleanup.go:45-49): the loop runs over the slice it was given,
\* whatever the cleanups append to the fields meanwhile.
callStack(stack, by, st) == callFrom(stack, Len(stack), by, st)


\* The history entry of a cleanup identity that no call has used yet.
NoReg == [how |-> "none", ok |-> FALSE, tActive |-> FALSE, sActive |-> FALSE,
          test |-> 0, life |-> "none"]

Op(name, id) == [name |-> name, id |-> id]

\* What the history records of a patch: the variable patched ("value": dest,
\* "env": the environment variable), its value before and the value given.
Patch(what, before, value) == [what |-> what, before |-> before, value |-> value]

\* The history entry of a cleanup identity that no patch registered.
NoPatch == Patch("none", Nil, Nil)

InitSuite ==
    /\ testStack = <<>>
    /\ suiteStack = <<>>
    /\ suiteSuite = Nil
    /\ testSuite = Nil
    /\ ran = <<>>
    /\ panicMsg = NoPanic
    /\ lastOp = Op("new", 0)
    /\ nops = 0
    /\ nextId = 1
    /\ dest = 0
    /\ patched = [i \in 1..MaxCleanups |-> NoPatch]
    /\ suiteActive = FALSE
    /\ testActive = FALSE
    /\ lifecycle = "none"
    /\ testNo = 0
    /\ regs = [i \in 1..MaxCleanups |-> NoReg]

\* The arguments of a check: of CheckCalls the expected calls, of CheckCall the
\* index (counted from 0, as in Go) and the expected call.
Check(name, expected, index, call) ==
    [name |-> name, expected |-> expected, index |-> index, call |-> call]

\* No check made by the last call.
NoCheck == Check("none", <<>>, 0, [FuncName |-> "", Args |-> <<>>])

\* A call on the stub that is no check: it reports nothing to gocheck.
Unchecked ==
    /\ UNCHANGED nchecks
    /\ checked' = NoCheck
    /\ failures' = 0
    /\ checkPanic' = NoPanic

\* A new Stub: &testing.Stub{} (stub.go:31-35).
InitStub ==
    /\ Calls = <<>>
    /\ Receivers = <<>>
    /\ Errors = <<>>
    /\ DefaultError = Nil
    /\ ret = Nil
    /\ stubOp = "new"
    /\ made = <<>>
    /\ programmed = <<>>
    /\ nextCount = 0
    /\ callsSinceSet = 0
    /\ dropped = 0
    /\ nchecks = 0
    /\ checked = NoCheck
    /\ failures = 0
    /\ checkPanic = NoPanic

\* A new Fake: &testing.Fake{}, no call made on it.
FakeZero ==
    /\ fakeCalls = <<>>
    /\ Err = Nil
    /\ FailOnCall = 0
    /\ fakeRets = <<>>
    /\ fakeOp = "new"

\* No call of *outputFunc is blocked.
NoSend == [cmd |-> 0, hook |-> 0]

\* An operation on the hooks: its name and the hook it is about.
HookOp(name, h) == [name |-> name, hook |-> h]

\* A command-output function no hook was put on, never called.
HookZero ==
    /\ HookChannelSize = 10
    /\ outputFunc = 0
    /\ hooks = <<>>
    /\ sending = NoSend
    /\ received = <<>>
    /\ outputCalls = <<>>
    /\ hookedWith = <<>>
    /\ hookOp = HookOp("new", 0)
    /\ hookPanic = NoPanic

\* A call of CheckTag or MatchTag: its name and its arguments.
TagOp(name, required, tags) == [name |-> name, required |-> required, tags |-> tags]

\* No --tags and no --smoke flag on the command line, no call made.
TagZero ==
    /\ rawTags = [raw |-> <<>>, smoke |-> FALSE, parsed |-> <<>>]
    /\ tagOp = TagOp("none", <<>>, <<>>)
    /\ tagged = FALSE
    /\ matched = ""

\* The map with no entry: a nil map, or the environment after os.Clearenv.
NoEnv == <<>>

\* An OsEnvSuite{} (osenv_test.go:21) no method of which was called, in a
\* process with an empty environment.
OsEnvZero ==
    /\ oldEnvironment = NoEnv
    /\ environ = NoEnv
    /\ GOOS = "linux"
    /\ osEnvAt = "new"
    /\ osEnvOp = "new"
    /\ atSetUpSuite = NoEnv
    /\ written = {}

\* A call on the MgoInstance: its name, what stopped Start before its first
\* attempt, and how the attempts to run mongod went.
MgoOp(name, early, outcomes) == [name |-> name, early |-> early, outcomes |-> outcomes]

\* A new MgoInstance: &MgoInstance{} with the given EnableReplicaSet.
NewMgoInstance(replicaSet) ==
    [addr |-> "", port |-> 0, server |-> Nil, dir |-> "",
     EnableReplicaSet |-> replicaSet]

\* A new MgoInstance, no method of which was called.
MgoZero ==
    /\ inst = NewMgoInstance(FALSE)
    /\ mgoOp = MgoOp("new", Nil, <<>>)
    /\ mgoErr = Nil
    /\ mgoPanic = NoPanic
    /\ mgoOps = 0

\* The components other than the CleanupSuite and the Stub, not used.
InitRest == FakeZero /\ HookZero /\ TagZero /\ OsEnvZero /\ MgoZero

\* The methods called in any order (cleanup_test.go:20-30, 142-179 call them
\* from test code).
InitCleanup == InitSuite /\ env = Unset /\ runner = "any" /\ InitStub /\ InitRest

\* The methods called by gocheck: SetUpSuite, then SetUpTest and TearDownTest
\* around each test, then TearDownSuite.
InitLifecycle == InitSuite /\ env = Unset /\ runner = "gocheck" /\ InitStub /\ InitRest

\* The position in the lifecycle SetUpSuite (SetUpTest TearDownTest)* TearDownSuite
\* after one more signal; "bad" once the signals have left it.
LifecycleAfter(signal) ==
    CASE signal = "SetUpSuite"    /\ lifecycle = "none"  -> "suite"
      [] signal = "SetUpTest"     /\ lifecycle = "suite" -> "test"
      [] signal = "TearDownTest"  /\ lifecycle = "test"  -> "suite"
      [] signal = "TearDownSuite" /\ lifecycle = "suite" -> "ended"
      [] OTHER -> "bad"

\* Whether the model makes this call now: gocheck delivers a signal only in
\* its place in the lifecycle; otherwise only the number of calls is bounded.
Allowed(call) ==
    IF runner = "gocheck"
    THEN CASE call \in {"AddCleanup", "AddCleanupByValue"} -> TRUE
           [] call \in {"PatchValue", "PatchEnvironment"} -> TRUE
           [] call = "SetUpTest" -> lifecycle = "suite" /\ testNo < MaxTests
           [] OTHER -> LifecycleAfter(call) # "bad"
    ELSE nops < MaxOps

\* SetUpSuite (cleanup.go:25-28).
SetUpSuite ==
    /\ UNCHANGED <<stubVars, restVars>>
    /\ Allowed("SetUpSuite")
    /\ suiteStack' = <<>>
    /\ suiteSuite' = Self
    /\ suiteActive' = TRUE
    /\ lifecycle' = LifecycleAfter("SetUpSuite")
    /\ panicMsg' = NoPanic
    /\ lastOp' = Op("SetUpSuite", 0)
    /\ nops' = nops + 1
    /\ UNCHANGED <<testStack, testSuite, ran, nextId, testActive, testNo, regs, runner>>
    /\ UNCHANGED <<dest, env, patched>>

\* SetUpTest without line 36: the test stack is kept.
SetUpTestKeepingStack ==
    /\ UNCHANGED <<stubVars, restVars>>
    /\ Allowed("SetUpTest")
    /\ testSuite' = Self
    /\ testActive' = TRUE
    /\ testNo' = testNo + 1
    /\ lifecycle' = LifecycleAfter("SetUpTest")
    /\ panicMsg' = NoPanic
    /\ lastOp' = Op("SetUpTest", 0)
    /\ nops' = nops + 1
    /\ UNCHANGED <<testStack, suiteStack, suiteSuite, ran, nextId, suiteActive, regs, runner>>
    /\ UNCHANGED <<dest, env, patched>>

\* SetUpTest (cleanup.go:35-38).
SetUpTest ==
    /\ UNCHANGED <<stubVars, restVars>>
    /\ Allowed("SetUpTest")
    /\ testStack' = <<>>
    /\ testSuite' = Self
    /\ testActive' = TRUE
    /\ testNo' = testNo + 1
    /\ lifecycle' = LifecycleAfter("SetUpTest")
    /\ panicMsg' = NoPanic
    /\ lastOp' = Op("SetUpTest", 0)
    /\ nops' = nops + 1
    /\ UNCHANGED <<suiteStack, suiteSuite, ran, nextId, suiteActive, regs, runner>>
    /\ UNCHANGED <<dest, env, patched>>

\* The state a teardown starts from.
TearDownStart ==
    [o |-> Suite, ran |-> ran, regs |-> regs, nextId |-> nextId, dest |-> dest,
     env |-> env, panic |-> NoPanic]

\* TearDownSuite (cleanup.go:30-33): a panic of a cleanup leaves the method
\* before line 32.
TearDownSuite ==
    /\ UNCHANGED <<stubVars, restVars>>
    /\ Allowed("TearDownSuite")
    /\ nextId + NumReg(suiteStack) - 1 <= MaxCleanups
    /\ LET st == callStack(suiteStack, "TearDownSuite", TearDownStart)
           returned == st.panic = NoPanic
       IN  /\ testStack' = st.o.testStack
           /\ suiteStack' = st.o.suiteStack
           /\ testSuite' = st.o.testSuite
           /\ suiteSuite' = IF returned THEN Nil ELSE st.o.suiteSuite
           /\ ran' = st.ran
           /\ regs' = st.regs
           /\ nextId' = st.nextId
           /\ dest' = st.dest
           /\ env' = st.env
           /\ panicMsg' = st.panic
           /\ suiteActive' = IF returned THEN FALSE ELSE suiteActive
           /\ lifecycle' = IF returned THEN LifecycleAfter("TearDownSuite") ELSE "bad"
    /\ lastOp' = Op("TearDownSuite", 0)
    /\ nops' = nops + 1
    /\ UNCHANGED <<testActive, testNo, patched, runner>>

\* TearDownTest that discards the test stack once it has unwound it.
TearDownTestClearing ==
    /\ UNCHANGED <<stubVars, restVars>>
    /\ Allowed("TearDownTest")
    /\ nextId + NumReg(testStack) - 1 <= MaxCleanups
    /\ LET st == callStack(testStack, "TearDownTest", TearDownStart)
           returned == st.panic = NoPanic
       IN  /\ testStack' = IF returned THEN <<>> ELSE st.o.testStack
           /\ suiteStack' = st.o.suiteStack
           /\ suiteSuite' = st.o.suiteSuite
           /\ testSuite' = IF returned THEN Nil ELSE st.o.testSuite
           /\ ran' = st.ran
           /\ regs' = st.regs
           /\ nextId' = st.nextId
           /\ dest' = st.dest
           /\ env' = st.env
           /\ panicMsg' = st.panic
           /\ testActive' = IF returned THEN FALSE ELSE testActive
           /\ lifecycle' = IF returned THEN LifecycleAfter("TearDownTest") ELSE "bad"
    /\ lastOp' = Op("TearDownTest", 0)
    /\ nops' = nops + 1
    /\ UNCHANGED <<suiteActive, testNo, patched, runner>>

\* TearDownTest (cleanup.go:40-43).
TearDownTest ==
    /\ UNCHANGED <<stubVars, restVars>>
    /\ Allowed("TearDownTest")
    /\ nextId + NumReg(testStack) - 1 <= MaxCleanups
    /\ LET st == callStack(testStack, "TearDownTest", TearDownStart)
           returned == st.panic = NoPanic
       IN  /\ testStack' = st.o.testStack
           /\ suiteStack' = st.o.suiteStack
           /\ suiteSuite' = st.o.suiteSuite
           /\ testSuite' = IF returned THEN Nil ELSE st.o.testSuite
           /\ ran' = st.ran
           /\ regs' = st.regs
           /\ nextId' = st.nextId
           /\ dest' = st.dest
           /\ env' = st.env
           /\ panicMsg' = st.panic
           /\ testActive' = IF returned THEN FALSE ELSE testActive
           /\ lifecycle' = IF returned THEN LifecycleAfter("TearDownTest") ELSE "bad"
    /\ lastOp' = Op("TearDownTest", 0)
    /\ nops' = nops + 1
    /\ UNCHANGED <<suiteActive, testNo, patched, runner>>

\* s.AddCleanup(f) in test code holding the pointer (cleanup_test.go:34-39,
\* 165-172); AddSuiteCleanup (cleanup.go:85-87) is the same call.
CallAddCleanup ==
    \E kind \in CleanupKinds :
        /\ UNCHANGED <<stubVars, restVars>>
        /\ Allowed("AddCleanup")
        /\ nextId <= MaxCleanups
        /\ LET res == AddCleanup(Suite, Self, Cleanup(nextId, kind))
           IN  /\ testStack' = res.o.testStack
               /\ suiteStack' = res.o.suiteStack
               /\ suiteSuite' = res.o.suiteSuite
               /\ testSuite' = res.o.testSuite
               /\ panicMsg' = res.panic
               /\ regs' = [regs EXCEPT ![nextId] = Reg("direct", res)]
        /\ lastOp' = Op("AddCleanup", nextId)
        /\ nextId' = nextId + 1
        /\ nops' = nops + 1
        /\ UNCHANGED <<ran, suiteActive, testActive, lifecycle, testNo, runner>>
        /\ UNCHANGED <<dest, env, patched>>

\* s.AddCleanup(f) in a method with a non-pointer receiver
\* (cleanup_test.go:105-114): the method works on a copy of the struct, which
\* is lost when it returns.
CallAddCleanupByValue ==
    /\ UNCHANGED <<stubVars, restVars>>
    /\ Allowed("AddCleanupByValue")
    /\ nextId <= MaxCleanups
    /\ LET copy == Suite
           res == AddCleanup(copy, CopyAddr, Cleanup(nextId, "log"))
       IN  /\ panicMsg' = res.panic
           /\ regs' = [regs EXCEPT ![nextId] = Reg("value", res)]
    /\ lastOp' = Op("AddCleanupByValue", nextId)
    /\ nextId' = nextId + 1
    /\ nops' = nops + 1
    /\ UNCHANGED <<testStack, suiteStack, suiteSuite, testSuite, ran,
                   suiteActive, testActive, lifecycle, testNo, runner>>
    /\ UNCHANGED <<dest, env, patched>>

\* PatchValue(dest, value) of the package: it captures the value at dest,
\* writes value there and returns restore, which writes the captured value back.
PatchValue(cur, value) == [now |-> value, old |-> cur]

\* PatchEnvironment(name, value) of the package: it captures the value of the
\* variable, or that it is not set, sets it to value and returns restore,
\* which sets the captured value again, or unsets the variable.
PatchEnvironment(cur, value) == [now |-> value, old |-> cur]

\* CleanupSuite.PatchValue without line 110: restore is not registered.
SuitePatchValueNoCleanup(o, self, cur, value, id) ==
    LET p == PatchValue(cur, value)
    IN  [o |-> o, panic |-> NoPanic, now |-> p.now]

\* CleanupSuite.PatchValue (cleanup.go:108-111) on the struct value o; id is
\* the identity of the cleanup function it makes.
SuitePatchValue(o, self, cur, value, id) ==
    LET p == PatchValue(cur, value)
        res == AddCleanup(o, self, Restorer(id, "value", p.old))
    IN  [o |-> res.o, panic |-> res.panic, now |-> p.now]

\* CleanupSuite.PatchEnvironment without line 94: restore is not registered.
SuitePatchEnvironmentNoCleanup(o, self, cur, value, id) ==
    LET p == PatchEnvironment(cur, value)
    IN  [o |-> o, panic |-> NoPanic, now |-> p.now]

\* CleanupSuite.PatchEnvironment (cleanup.go:92-95).
SuitePatchEnvironment(o, self, cur, value, id) ==
    LET p == PatchEnvironment(cur, value)
        res == AddCleanup(o, self, Restorer(id, "env", p.old))
    IN  [o |-> res.o, panic |-> res.panic, now |-> p.now]

\* The value the patch with cleanup identity id gives to dest: each patch
\* gives a value of its own, none of them the first value of dest.
NewValue(id) == id

\* The value the patch with cleanup identity id gives to the environment
\* variable.
NewEnv(id) == ToString(id)

\* The environment variable before the suite starts: not set, set to the
\* empty string, or set (cleanup_test.go:53).
EnvStart == {Unset, "", "initial"}

\* s.PatchValue(&dest, value) in test code (cleanup_test.go:69-72).
CallPatchValue ==
    /\ UNCHANGED <<stubVars, restVars>>
    /\ Allowed("PatchValue")
    /\ nextId <= MaxCleanups
    /\ LET res == SuitePatchValue(Suite, Self, dest, NewValue(nextId), nextId)
       IN  /\ testStack' = res.o.testStack
           /\ suiteStack' = res.o.suiteStack
           /\ suiteSuite' = res.o.suiteSuite
           /\ testSuite' = res.o.testSuite
           /\ panicMsg' = res.panic
           /\ dest' = res.now
           /\ regs' = [regs EXCEPT ![nextId] = Reg("direct", res)]
    /\ patched' = [patched EXCEPT ![nextId] = Patch("value", dest, NewValue(nextId))]
    /\ lastOp' = Op("PatchValue", nextId)
    /\ nextId' = nextId + 1
    /\ nops' = nops + 1
    /\ UNCHANGED <<ran, env, suiteActive, testActive, lifecycle, testNo, runner>>

\* s.PatchEnvironment(name, value) in test code (cleanup_test.go:49-57).
CallPatchEnvironment ==
    /\ UNCHANGED <<stubVars, restVars>>
    /\ Allowed("PatchEnvironment")
    /\ nextId <= MaxCleanups
    /\ LET res == SuitePatchEnvironment(Suite, Self, env, NewEnv(nextId), nextId)
       IN  /\ testStack' = res.o.testStack
           /\ suiteStack' = res.o.suiteStack
           /\ suiteSuite' = res.o.suiteSuite
           /\ testSuite' = res.o.testSuite
           /\ panicMsg' = res.panic
           /\ env' = res.now
           /\ regs' = [regs EXCEPT ![nextId] = Reg("direct", res)]
    /\ patched' = [patched EXCEPT ![nextId] = Patch("env", env, NewEnv(nextId))]
    /\ lastOp' = Op("PatchEnvironment", nextId)
    /\ nextId' = nextId + 1
    /\ nops' = nops + 1
    /\ UNCHANGED <<ran, dest, suiteActive, testActive, lifecycle, testNo, runner>>

NextCleanup ==
    \/ SetUpSuite
    \/ SetUpTest
    \/ TearDownSuite
    \/ TearDownTest
    \/ CallAddCleanup
    \/ CallAddCleanupByValue

SpecCleanup == InitCleanup /\ [][NextCleanup]_vars

SpecLifecycle == InitLifecycle /\ [][NextCleanup]_vars

\* The suite whose tests patch a variable and an environment variable, the
\* signals delivered by gocheck.
InitPatch == InitSuite /\ env \in EnvStart /\ runner = "gocheck" /\ InitStub /\ InitRest

NextPatch ==
    \/ SetUpSuite
    \/ SetUpTest
    \/ TearDownSuite
    \/ TearDownTest
    \/ CallPatchValue
    \/ CallPatchEnvironment

SpecPatch == InitPatch /\ [][NextPatch]_vars

(***************************************************************************)
(* Properties of the CleanupSuite.                                         *)
(***************************************************************************)
\* The identities handed to AddCleanup so far, in the order of the calls.
AllIds == [i \in 1..(nextId - 1) |-> i]

\* The step is a call of the method `name`.
IsCall(name) == lastOp'.name = name /\ nops' = nops + 1

\* The entries of the log for cleanup id, in order.
RunsOf(id) == SelectSeq(ran, LAMBDA e : e.id = id)

\* The cleanups AddCleanup accepted in the test now active, the suite being
\* active, in the order of their registration.
TestRegistered ==
    SelectSeq(AllIds, LAMBDA i : /\ regs[i].ok
                                 /\ regs[i].tActive
                                 /\ regs[i].sActive
                                 /\ regs[i].test = testNo)

\* The log entries of the cleanups ids run, in this order, by the teardown `by`.
RanEntries(ids, by) == [i \in 1..Len(ids) |-> [id |-> ids[i], by |-> by, test |-> testNo]]

\* new is old with one more entry at its end, the cleanup id.
Grown(old, new, id) ==
    /\ Len(new) = Len(old) + 1
    /\ SubSeq(new, 1, Len(old)) = old
    /\ new[Len(new)].id = id

\* C1: a TearDownTest that ends the active test of an active suite runs
\* exactly the cleanups registered in that test, each once, the last
\* registered first.
C1_TearDownTestRunsReverse ==
    [][(IsCall("TearDownTest") /\ testActive /\ suiteActive)
        => ran' = ran \o RanEntries(Reverse(TestRegistered), "TearDownTest")]_vars

C1_Witness ==
    /\ lastOp.name = "TearDownTest"
    /\ lifecycle = "suite"
    /\ Len(ran) = 3
    /\ \A i \in 1..3 : ran[i].id = 4 - i /\ regs[i].how = "direct"

\* C2: with the signals delivered in the order of the lifecycle, a cleanup
\* test code registers while a test is active has run exactly once when that
\* test's TearDownTest has returned, in that TearDownTest, and not before; a
\* cleanup registered while no test is active has run exactly once when
\* TearDownSuite has returned, in TearDownSuite, and not before.
C2_ScopeIsolation ==
    lifecycle # "bad" =>
        \A id \in 1..(nextId - 1) :
            (regs[id].how = "direct" /\ regs[id].ok) =>
                IF regs[id].tActive
                THEN RunsOf(id) =
                        IF testNo > regs[id].test \/ ~testActive
                        THEN <<[id |-> id, by |-> "TearDownTest", test |-> regs[id].test]>>
                        ELSE <<>>
                ELSE RunsOf(id) =
                        IF lifecycle = "ended"
                        THEN <<[id |-> id, by |-> "TearDownSuite", test |-> testNo]>>
                        ELSE <<>>

C2_Witness ==
    /\ lifecycle = "ended"
    /\ testNo = 2
    /\ \E a, b \in 1..(nextId - 1) :
          /\ regs[a].how = "direct" /\ regs[a].ok /\ ~regs[a].tActive /\ regs[a].test = 0
          /\ regs[b].how = "direct" /\ regs[b].ok /\ regs[b].tActive /\ regs[b].test = 1
          /\ Len(RunsOf(a)) = 1
          /\ Len(RunsOf(b)) = 1

\* C3: while the suite is active, AddCleanup through the pointer returns and
\* appends the cleanup to the test stack when a test is active and to the
\* suite stack when none is; the other stack is unchanged.
C3_AddCleanupPicksScope ==
    [][(IsCall("AddCleanup") /\ suiteActive) =>
          /\ panicMsg' = NoPanic
          /\ IF testActive
             THEN Grown(testStack, testStack', lastOp'.id) /\ suiteStack' = suiteStack
             ELSE Grown(suiteStack, suiteStack', lastOp'.id) /\ testStack' = testStack]_vars

C3_Witness ==
    /\ lastOp.name = "AddCleanup"
    /\ suiteActive /\ ~testActive /\ testNo = 1
    /\ panicMsg = NoPanic
    /\ Len(testStack) = 1
    /\ Len(suiteStack) = 1
    /\ suiteStack[1].id = lastOp.id

C5_CopyPanics ==
    [][(IsCall("AddCleanupByValue") /\ suiteActive) =>
          /\ panicMsg' = PanicNonPointer
          /\ ~regs'[lastOp'.id].ok
          /\ testStack' = testStack
          /\ suiteStack' = suiteStack]_vars

C5_Witness ==
    /\ lastOp.name = "AddCleanupByValue"
    /\ suiteActive /\ testActive
    /\ panicMsg = PanicNonPointer
    /\ Len(testStack) = 1
    /\ Len(suiteStack) = 1

\* new holds at least the entries of old, at the same places.
Kept(old, new) ==
    /\ Len(new) >= Len(old)
    /\ \A i \in 1..Len(old) : new[i] = old[i]

\* The step runs at least one cleanup, the one on top of stack first.
RunsTopOf(stack) ==
    /\ Len(ran') > Len(ran)
    /\ ran'[Len(ran) + 1].id = stack[Len(stack)].id

\* C16 as amended: TearDownTest does not empty the test stack, which still
\* holds every action it held before (only SetUpTest empties it), so a second
\* TearDownTest with no SetUpTest in between runs the stack again from its
\* top, and runs nothing only when the stack is empty; likewise the suite
\* stack and TearDownSuite.
C16_StackKeptUntilSetUp ==
    [][/\ IsCall("TearDownTest") =>
            /\ panicMsg' = NoPanic => Kept(testStack, testStack')
            /\ (lastOp.name = "TearDownTest" /\ testStack # <<>>) => RunsTopOf(testStack)
            /\ testStack = <<>> => ran' = ran
       /\ IsCall("TearDownSuite") =>
            /\ panicMsg' = NoPanic => Kept(suiteStack, suiteStack')
            /\ (lastOp.name = "TearDownSuite" /\ suiteStack # <<>>) => RunsTopOf(suiteStack)
            /\ suiteStack = <<>> => ran' = ran]_vars

\* C16 as stated: after TearDownTest returns the test stack holds no
\* actions, and a second TearDownTest with no SetUpTest in between runs no
\* cleanup; likewise the suite stack and TearDownSuite.
C16_StackDiscarded ==
    [][/\ (IsCall("TearDownTest") /\ panicMsg' = NoPanic) => testStack' = <<>>
       /\ (IsCall("TearDownTest") /\ lastOp.name = "TearDownTest") => ran' = ran
       /\ (IsCall("TearDownSuite") /\ panicMsg' = NoPanic) => suiteStack' = <<>>
       /\ (IsCall("TearDownSuite") /\ lastOp.name = "TearDownSuite") => ran' = ran]_vars

C16_Witness ==
    /\ lastOp.name = "TearDownTest"
    /\ panicMsg = NoPanic
    /\ Len(testStack) = 1
    /\ Len(ran) = 2
    /\ ran[1].id = testStack[1].id /\ ran[1].by = "TearDownTest"
    /\ ran[2].id = testStack[1].id /\ ran[2].by = "TearDownTest"

\* The scope cleanup id was registered in is over: its test stack has been
\* cleared by the SetUpTest of a later test, or the lifecycle has ended.
ScopeOver(id) ==
    \/ lifecycle = "ended"
    \/ regs[id].tActive /\ testNo > regs[id].test

SuiteRegistered ==
    SelectSeq(AllIds, LAMBDA i : /\ regs[i].ok
                                 /\ ~regs[i].tActive
                                 /\ regs[i].sActive)

\* C18: with the signals delivered in the order of the lifecycle,
\* TearDownSuite runs the suite-scope cleanups, those registered before a
\* test's SetUpTest and those registered after its TearDownTest alike, the
\* last registered first; the cleanups test code registered during a test
\* have each run once by then, at TearDownTest, and are not run by
\* TearDownSuite.
C18_MixedSuiteAndTest ==
    [][(IsCall("TearDownSuite") /\ lifecycle = "suite") =>
          /\ ran' = ran \o RanEntries(Reverse(SuiteRegistered), "TearDownSuite")
          /\ \A id \in 1..(nextId - 1) :
                (regs[id].how = "direct" /\ regs[id].ok /\ regs[id].tActive) =>
                    /\ Len(RunsOf(id)) = 1
                    /\ RunsOf(id)[1].by = "TearDownTest"]_vars

C18_Witness ==
    /\ lifecycle = "ended"
    /\ testNo = 1
    /\ nextId = 4
    /\ \A id \in 1..3 : regs[id].how = "direct" /\ regs[id].ok
    /\ regs[1].life = "suite" /\ regs[1].test = 0
    /\ regs[2].life = "test"
    /\ regs[3].life = "suite" /\ regs[3].test = 1
    /\ [i \in 1..3 |-> ran[i].id] = <<2, 3, 1>>
    /\ [i \in 1..3 |-> ran[i].by] = <<"TearDownTest", "TearDownSuite", "TearDownSuite">>

\* C19: SetUpTest empties the test stack and runs none of its actions, so
\* that a TearDownTest right after it runs nothing, whatever ran at the
\* TearDownTest before; it leaves the suite stack and s.suiteSuite unchanged.
\* SetUpSuite empties the suite stack, runs nothing and leaves the test stack
\* and s.testSuite unchanged.
C19_SetUpEmptiesOwnStack ==
    [][/\ IsCall("SetUpTest") =>
            /\ testStack' = <<>>
            /\ ran' = ran
            /\ suiteStack' = suiteStack
            /\ suiteSuite' = suiteSuite
       /\ (IsCall("TearDownTest") /\ lastOp.name = "SetUpTest") => ran' = ran
       /\ IsCall("SetUpSuite") =>
            /\ suiteStack' = <<>>
            /\ ran' = ran
            /\ testStack' = testStack
            /\ testSuite' = testSuite]_vars

C19_Witness ==
    /\ lastOp.name = "SetUpTest"
    /\ testNo = 2
    /\ testStack = <<>>
    /\ Len(suiteStack) = 1
    /\ Len(ran) = 1
    /\ ran[1].by = "TearDownTest" /\ ran[1].test = 1
    /\ regs[ran[1].id].test = 1

\* Those of the cleanups ids that a patch of the variable `what` registered.
PatchesOf(what, ids) == SelectSeq(ids, LAMBDA i : patched[i].what = what)

\* C14: in a test of an active suite PatchValue(&x, v) makes x equal to v at
\* once; the TearDownTest of that test gives x the value it held just before
\* the PatchValue (before the first one, when the test made several); a
\* TearDownSuite with nothing registered at suite scope runs no cleanup and
\* leaves x unchanged.
C14_PatchValueRoundTrip ==
    [][/\ (IsCall("PatchValue") /\ lifecycle = "test") =>
            /\ panicMsg' = NoPanic
            /\ dest' = patched'[lastOp'.id].value
       /\ (IsCall("TearDownTest") /\ lifecycle = "test"
              /\ PatchesOf("value", TestRegistered) # <<>>) =>
            dest' = patched[PatchesOf("value", TestRegistered)[1]].before
       /\ (IsCall("TearDownSuite") /\ lifecycle = "suite" /\ SuiteRegistered = <<>>) =>
            /\ ran' = ran
            /\ dest' = dest]_vars

C14_Witness ==
    /\ lifecycle = "ended"
    /\ nextId = 2
    /\ regs[1].ok /\ regs[1].life = "test"
    /\ patched[1] = Patch("value", 0, NewValue(1))
    /\ [i \in 1..Len(ran) |-> ran[i].by] = <<"TearDownTest">>
    /\ dest = 0

\* C15: PatchEnvironment called while a suite is active sets the variable to
\* the value at once and registers one cleanup in the current scope, the test
\* when one is active and the suite otherwise; the teardown of that scope
\* gives the variable the value it had before the patch (before the first
\* one, when several were made in the scope), and leaves it unset, not set to
\* the empty string, when it was unset then.
C15_PatchEnvironmentRoundTrip ==
    [][/\ (IsCall("PatchEnvironment") /\ lifecycle \in {"suite", "test"}) =>
            /\ panicMsg' = NoPanic
            /\ env' = patched'[lastOp'.id].value
            /\ IF lifecycle = "test"
               THEN Grown(testStack, testStack', lastOp'.id) /\ suiteStack' = suiteStack
               ELSE Grown(suiteStack, suiteStack', lastOp'.id) /\ testStack' = testStack
       /\ (IsCall("TearDownTest") /\ lifecycle = "test"
              /\ PatchesOf("env", TestRegistered) # <<>>) =>
            env' = patched[PatchesOf("env", TestRegistered)[1]].before
       /\ (IsCall("TearDownSuite") /\ lifecycle = "suite"
              /\ PatchesOf("env", SuiteRegistered) # <<>>) =>
            env' = patched[PatchesOf("env", SuiteRegistered)[1]].before]_vars

C15_Witness ==
    /\ lastOp.name = "TearDownSuite"
    /\ lifecycle = "ended"
    /\ nextId = 3
    /\ patched[1] = Patch("env", Unset, NewEnv(1)) /\ regs[1].life = "suite"
    /\ patched[2] = Patch("env", NewEnv(1), NewEnv(2)) /\ regs[2].life = "test"
    /\ [i \in 1..Len(ran) |-> ran[i].id] = <<2, 1>>
    /\ env = Unset

\* Every PatchValue made so far was made while a suite was active.
ValuePatchesAccepted ==
    \A id \in 1..(nextId - 1) : patched[id].what = "value" => regs[id].ok

\* C20: with the signals delivered in the order of the lifecycle and the
\* destination patched only in a scope, at suite scope among them: while no test is active or while a
\* test is active that has not patched it, after TearDownTest and in the
\* further tests alike, the destination holds the value of the last
\* suite-scope patch; after TearDownSuite it holds the value it had before
\* the first suite-scope patch.
C20_NestedPatchValue ==
    LET sv == PatchesOf("value", SuiteRegistered)
        tv == PatchesOf("value", TestRegistered)
    IN  (sv # <<>> /\ ValuePatchesAccepted) =>
            /\ (lifecycle = "suite" \/ (lifecycle = "test" /\ tv = <<>>)) =>
                  dest = patched[sv[Len(sv)]].value
            /\ lifecycle = "ended" => dest = patched[sv[1]].before

C20_Witness ==
    /\ lastOp.name = "TearDownTest"
    /\ lifecycle = "suite"
    /\ testNo = 2
    /\ nextId = 3
    /\ patched[1].what = "value" /\ regs[1].life = "suite" /\ regs[1].test = 0
    /\ patched[2].what = "value" /\ regs[2].life = "test" /\ regs[2].test = 1
    /\ dest = NewValue(1)
    /\ Len(ran) = 1

\* C21: TearDownSuite and TearDownTest on a CleanupSuite whose stack is
\* empty, or that never had its SetUp, run no cleanup and do not panic; the
\* SetUpSuite (SetUpTest) that follows makes the scope active, its stack empty.
C21_TearDownEmpty ==
    [][/\ (IsCall("TearDownSuite") /\ suiteStack = <<>>) =>
            ran' = ran /\ panicMsg' = NoPanic /\ suiteStack' = <<>>
       /\ (IsCall("TearDownTest") /\ testStack = <<>>) =>
            ran' = ran /\ panicMsg' = NoPanic /\ testStack' = <<>>
       /\ (IsCall("SetUpSuite") /\ lastOp.name = "TearDownSuite") =>
            suiteSuite' = Self /\ suiteStack' = <<>> /\ panicMsg' = NoPanic
       /\ (IsCall("SetUpTest") /\ lastOp.name = "TearDownTest") =>
            testSuite' = Self /\ testStack' = <<>> /\ panicMsg' = NoPanic]_vars

C21_Witness ==
    /\ lastOp.name = "SetUpTest"
    /\ nops = 4
    /\ testNo = 1
    /\ nextId = 1
    /\ suiteSuite = Self /\ testSuite = Self
    /\ suiteActive /\ testActive
    /\ ran = <<>>
    /\ panicMsg = NoPanic

\* All the calls made so far were SetUpTest and AddCleanup calls: every
\* cleanup identity was used by a call of test code, and these calls and the
\* SetUpTest calls are all the calls.
OnlySetUpTestSoFar ==
    /\ \A id \in 1..(nextId - 1) : regs[id].how \in {"direct", "value"}
    /\ nops = testNo + (nextId - 1)

Stub == [Calls |-> Calls, Receivers |-> Receivers, Errors |-> Errors,
         DefaultError |-> DefaultError]

\* StubCall (stub.go:12-19).
StubCall(funcName, args) == [FuncName |-> funcName, Args |-> args]

\* The address of the Stub itself, which fake_test.go:592-615 passes as receiver.
StubAddr == "stub"

\* The errors of the tests.  Each errors.New makes an error of its own
\* (fake_test.go:459-460): the error made for position i of a sequence.
ErrNames == <<"failure 1", "failure 2", "failure 3", "failure 4", "failure 5">>

\* The sequences given to SetErrors: at each position a nil error or an error
\* of its own.
ErrSeqs ==
    UNION {{[i \in 1..n |-> IF i \in S THEN ErrNames[i] ELSE Nil] : S \in SUBSET (1..n)} :
             n \in 0..MaxErrs}

\* The values assigned to DefaultError: nil, or an error (fake_test.go:489-490).
DefaultValues == {Nil, "failure"}

\* The names test code records calls under.
FuncNames == {"aFunc", "Method1"}

\* The argument lists test code records: none, or 1, 2, 3 (Go values are
\* written as strings).
ArgLists == {<<>>, <<"1", "2", "3">>}

\* NextErr taking a nil placeholder for the end of the sequence.
NextErrSkipNil(f) ==
    IF Len(f.Errors) = 0 \/ Head(f.Errors) = Nil
    THEN [f |-> [f EXCEPT !.Errors = IF @ = <<>> THEN @ ELSE Tail(@)], err |-> f.DefaultError]
    ELSE [f |-> [f EXCEPT !.Errors = Tail(@)], err |-> Head(f.Errors)]

\* NextErr without line 126: the error stays at the head.
NextErrNoPop(f) ==
    IF Len(f.Errors) = 0
    THEN [f |-> f, err |-> f.DefaultError]
    ELSE [f |-> f, err |-> Head(f.Errors)]

\* NextErr taking the last error of the sequence.
NextErrLast(f) ==
    IF Len(f.Errors) = 0
    THEN [f |-> f, err |-> f.DefaultError]
    ELSE [f |-> [f EXCEPT !.Errors = SubSeq(@, 1, Len(@) - 1)],
          err |-> f.Errors[Len(f.Errors)]]

\* NextErr (stub.go:121-128): the stub after the call and the error returned.
NextErr(f) ==
    IF Len(f.Errors) = 0
    THEN [f |-> f, err |-> f.DefaultError]
    ELSE [f |-> [f EXCEPT !.Errors = Tail(@)], err |-> Head(f.Errors)]

\* addCall that does not record a call equal to the one recorded last.
addCallMerging(f, rcvr, funcName, args) ==
    IF f.Calls # <<>> /\ f.Calls[Len(f.Calls)] = StubCall(funcName, args)
    THEN f
    ELSE [f EXCEPT !.Calls = Append(@, StubCall(funcName, args)),
                   !.Receivers = Append(@, rcvr)]

\* addCall that puts the receiver at the front of Receivers.
addCallReceiverFirst(f, rcvr, funcName, args) ==
    [f EXCEPT !.Calls = Append(@, StubCall(funcName, args)),
              !.Receivers = <<rcvr>> \o @]

\* addCall taking the next programmed error off the queue for the call it records.
addCallTakingError(f, rcvr, funcName, args) ==
    [f EXCEPT !.Calls = Append(@, StubCall(funcName, args)),
              !.Receivers = Append(@, rcvr),
              !.Errors = IF @ = <<>> THEN @ ELSE Tail(@)]

\* addCall (stub.go:130-136).
addCall(f, rcvr, funcName, args) ==
    [f EXCEPT !.Calls = Append(@, StubCall(funcName, args)),
              !.Receivers = Append(@, rcvr)]

\* AddCall (stub.go:141-143).
AddCall(f, funcName, args) == addCall(f, Nil, funcName, args)

\* MethodCall (stub.go:147-149).
MethodCall(f, receiver, funcName, args) == addCall(f, receiver, funcName, args)

\* SetErrors adding the sequence after the errors still pending.
SetErrorsAppending(f, errors) == [f EXCEPT !.Errors = @ \o errors]

\* SetErrors (stub.go:155-157).
SetErrors(f, errors) == [f EXCEPT !.Errors = errors]

\* The stubbed methods of the two types that embed one Stub
\* (fake_test.go:420-446): mockA.aMethod, mockA.otherMethod, mockB.aMethod, mockB.aFunc.
FacadeMethods ==
    {[facade |-> "A", method |-> "aMethod"], [facade |-> "A", method |-> "otherMethod"],
     [facade |-> "B", method |-> "aMethod"], [facade |-> "B", method |-> "aFunc"]}

\* What a stubbed method records, before it calls NextErr.
Recorded(f, facade, method) ==
    CASE facade = "A" /\ method = "aMethod" ->
            MethodCall(f, facade, "aMethod", <<"1", "2", "3">>)
      [] facade = "A" /\ method = "otherMethod" ->
            MethodCall(f, facade, "otherMethod", <<"[arg1 arg2]">>)
      [] facade = "B" /\ method = "aMethod" ->
            MethodCall(f, facade, "aMethod", <<>>)
      [] facade = "B" /\ method = "aFunc" ->
            AddCall(f, "aFunc", <<"arg">>)

\* A stubbed method: it records its call and returns NextErr().
StubbedMethod(f, facade, method) == NextErr(Recorded(f, facade, method))

\* The fields of the stub after a call.
StubBecomes(f) ==
    /\ Calls' = f.Calls
    /\ Receivers' = f.Receivers
    /\ Errors' = f.Errors
    /\ DefaultError' = f.DefaultError

\* What the history records of one recorded call.
Made(by, method, receiver, funcName, args) ==
    [by |-> by, method |-> method, receiver |-> receiver, funcName |-> funcName,
     args |-> args]

\* f.AddCall(funcName, args...) in test code (fake_test.go:547-551).
CallAddCall ==
    \E funcName \in FuncNames, args \in ArgLists :
        /\ Len(Calls) < MaxCalls
        /\ StubBecomes(AddCall(Stub, funcName, args))
        /\ made' = Append(made, Made("test", "AddCall", Nil, funcName, args))
        /\ callsSinceSet' = callsSinceSet + 1
        /\ stubOp' = "AddCall"
        /\ ret' = Nil
        /\ Unchecked
        /\ dropped' = 0
        /\ UNCHANGED <<programmed, nextCount>>
        /\ UNCHANGED <<cleanupVars, restVars>>

\* f.MethodCall(receiver, funcName, args...) in test code (fake_test.go:602-604).
CallMethodCall ==
    \E receiver \in {StubAddr}, funcName \in FuncNames, args \in ArgLists :
        /\ Len(Calls) < MaxCalls
        /\ StubBecomes(MethodCall(Stub, receiver, funcName, args))
        /\ made' = Append(made, Made("test", "MethodCall", receiver, funcName, args))
        /\ callsSinceSet' = callsSinceSet + 1
        /\ stubOp' = "MethodCall"
        /\ ret' = Nil
        /\ Unchecked
        /\ dropped' = 0
        /\ UNCHANGED <<programmed, nextCount>>
        /\ UNCHANGED <<cleanupVars, restVars>>

\* f.NextErr() in test code (fake_test.go:463-464).
CallNextErr ==
    /\ nextCount < MaxNext
    /\ LET r == NextErr(Stub)
       IN  /\ StubBecomes(r.f)
           /\ ret' = r.err
    /\ nextCount' = nextCount + 1
    /\ stubOp' = "NextErr"
    /\ Unchecked
    /\ dropped' = 0
    /\ UNCHANGED <<made, programmed, callsSinceSet>>
    /\ UNCHANGED <<cleanupVars, restVars>>

\* f.SetErrors(errors...) (fake_test.go:648), or the assignment of f.Errors
\* (fake_test.go:461).
CallSetErrors ==
    \E errors \in ErrSeqs :
        /\ StubBecomes(SetErrors(Stub, errors))
        /\ programmed' = errors
        /\ nextCount' = 0
        /\ callsSinceSet' = 0
        /\ dropped' = Len(Errors)
        /\ stubOp' = "SetErrors"
        /\ ret' = Nil
        /\ Unchecked
        /\ UNCHANGED made
        /\ UNCHANGED <<cleanupVars, restVars>>

\* The assignment of f.DefaultError (fake_test.go:490, 498).
AssignDefaultError ==
    \E e \in DefaultValues :
        /\ e # DefaultError
        /\ DefaultError' = e
        /\ stubOp' = "DefaultError"
        /\ ret' = Nil
        /\ Unchecked
        /\ dropped' = 0
        /\ UNCHANGED <<Calls, Receivers, Errors, made, programmed, nextCount,
                       callsSinceSet>>
        /\ UNCHANGED <<cleanupVars, restVars>>

\* A call of a stubbed method of one of the two types sharing the stub
\* (fake_test.go:526-529).
CallStubbedMethod ==
    \E m \in FacadeMethods :
        /\ Len(Calls) < MaxCalls
        /\ LET r == StubbedMethod(Stub, m.facade, m.method)
           IN  /\ StubBecomes(r.f)
               /\ ret' = r.err
        /\ made' = Append(made, Made(m.facade, m.method, Nil, "", <<>>))
        /\ callsSinceSet' = callsSinceSet + 1
        /\ nextCount' = nextCount + 1
        /\ stubOp' = "StubbedMethod"
        /\ Unchecked
        /\ dropped' = 0
        /\ UNCHANGED programmed
        /\ UNCHANGED <<cleanupVars, restVars>>

\* stubCallNames (stub.go:194-200).
stubCallNames(calls) == [i \in 1..Len(calls) |-> calls[i].FuncName]

\* CheckCallNames (stub.go:189-192): TRUE when the check passes.  jc.DeepEquals
\* takes a nil slice and an empty slice for equal.
CheckCallNames(f, expected) == stubCallNames(f.Calls) = expected

\* The outcome of a check: the failed checks it reported and its panic.
Outcome(n, panic) == [failures |-> n, panic |-> panic]

\* CheckCalls comparing the names only.
CheckCallsNamesOnly(f, expected) ==
    IF ~CheckCallNames(f, stubCallNames(expected))
    THEN Outcome(1, NoPanic)
    ELSE Outcome(0, NoPanic)

\* CheckCalls without the return of line 164: the full comparison is made
\* after a failed comparison of the names too.
CheckCallsNoReturn(f, expected) ==
    Outcome((IF CheckCallNames(f, stubCallNames(expected)) THEN 0 ELSE 1)
            + (IF f.Calls = expected THEN 0 ELSE 1), NoPanic)

\* CheckCalls (stub.go:162-167).
CheckCalls(f, expected) ==
    IF ~CheckCallNames(f, stubCallNames(expected))
    THEN Outcome(1, NoPanic)
    ELSE Outcome(IF f.Calls = expected THEN 0 ELSE 1, NoPanic)

\* The panic of Go for f.Calls[index] with index outside the slice.
PanicIndex == "runtime error: index out of range"

\* CheckCall (stub.go:175-185); index counts from 0.  Line 176 lets through
\* every index less than len(f.Calls), so line 179 indexes the slice with a
\* negative index.
CheckCall(f, index, funcName, args) ==
    IF ~(index < Len(f.Calls))
    THEN Outcome(1, NoPanic)
    ELSE IF index < 0
    THEN Outcome(0, PanicIndex)
    ELSE Outcome(IF f.Calls[index + 1] = StubCall(funcName, args) THEN 0 ELSE 1, NoPanic)

\* s without its i-th element.
Without(s, i) == SubSeq(s, 1, i - 1) \o SubSeq(s, i + 1, Len(s))

\* The expected calls test code gives to CheckCalls when the stub recorded
\* `calls` (fake_test.go:686-722): the calls themselves, or the calls with one
\* more call, with one call missing, with another name or other arguments at
\* one index, or in the opposite order.
ExpectedCalls(calls) ==
    {calls, Reverse(calls)}
    \cup {Append(calls, StubCall(n, a)) : n \in FuncNames, a \in ArgLists}
    \cup {Without(calls, i) : i \in 1..Len(calls)}
    \cup {[calls EXCEPT ![i].FuncName = n] : i \in 1..Len(calls), n \in FuncNames}
    \cup {[calls EXCEPT ![i].Args = a] : i \in 1..Len(calls), a \in ArgLists}

\* The indexes test code gives to CheckCall.
Indexes == -1..MaxCalls

\* f.CheckCalls(c, expected) in test code (fake_test.go:674-684).
CallCheckCalls ==
    \E expected \in ExpectedCalls(Calls) :
        /\ nchecks < MaxChecks
        /\ nchecks' = nchecks + 1
        /\ LET r == CheckCalls(Stub, expected)
           IN  /\ failures' = r.failures
               /\ checkPanic' = r.panic
        /\ checked' = Check("CheckCalls", expected, 0, NoCheck.call)
        /\ stubOp' = "CheckCalls"
        /\ ret' = Nil
        /\ dropped' = 0
        /\ UNCHANGED <<Calls, Receivers, Errors, DefaultError, made, programmed,
                       nextCount, callsSinceSet>>
        /\ UNCHANGED <<cleanupVars, restVars>>

\* f.CheckCall(c, index, funcName, args...) in test code (fake_test.go:724-728).
CallCheckCall ==
    \E index \in Indexes, funcName \in FuncNames, args \in ArgLists :
        /\ nchecks < MaxChecks
        /\ nchecks' = nchecks + 1
        /\ LET r == CheckCall(Stub, index, funcName, args)
           IN  /\ failures' = r.failures
               /\ checkPanic' = r.panic
        /\ checked' = Check("CheckCall", <<>>, index, StubCall(funcName, args))
        /\ stubOp' = "CheckCall"
        /\ ret' = Nil
        /\ dropped' = 0
        /\ UNCHANGED <<Calls, Receivers, Errors, DefaultError, made, programmed,
                       nextCount, callsSinceSet>>
        /\ UNCHANGED <<cleanupVars, restVars>>

\* f.CheckCallNames(c, expected...) in test code (fake_test.go:769-810): the
\* names of the recorded calls, or the names of a variation of them.
CallCheckCallNames ==
    \E expected \in {stubCallNames(e) : e \in ExpectedCalls(Calls)} :
        /\ nchecks < MaxChecks
        /\ nchecks' = nchecks + 1
        /\ failures' = IF CheckCallNames(Stub, expected) THEN 0 ELSE 1
        /\ checkPanic' = NoPanic
        /\ checked' = Check("CheckCallNames", expected, 0, NoCheck.call)
        /\ stubOp' = "CheckCallNames"
        /\ ret' = Nil
        /\ dropped' = 0
        /\ UNCHANGED <<Calls, Receivers, Errors, DefaultError, made, programmed,
                       nextCount, callsSinceSet>>
        /\ UNCHANGED <<cleanupVars, restVars>>

\* The recorder and the checks test code makes of what it recorded.
NextChecks ==
    \/ CallAddCall
    \/ CallMethodCall
    \/ CallCheckCalls
    \/ CallCheckCall

SpecChecks == InitCleanup /\ [][NextChecks]_vars

\* The recording side of the Stub, called by test code.
NextRecorder ==
    \/ CallAddCall
    \/ CallMethodCall

SpecRecorder == InitCleanup /\ [][NextRecorder]_vars

\* The error side of the Stub, called by test code.
NextErrors ==
    \/ CallNextErr
    \/ CallSetErrors
    \/ AssignDefaultError

SpecErrors == InitCleanup /\ [][NextErrors]_vars

\* Every operation of the Stub, called by test code in any order: the
\* recording side, the error side and the checks.
FrameSize == Len(made) + Len(programmed) + nextCount + nchecks

NextFrame ==
    /\ FrameSize < MaxFrame
    /\ \/ CallAddCall
       \/ CallMethodCall
       \/ CallNextErr
       \/ CallSetErrors
       \/ AssignDefaultError
       \/ CallCheckCalls
       \/ CallCheckCall
       \/ CallCheckCallNames

SpecFrame == InitCleanup /\ [][NextFrame]_vars

\* The Stub shared by the two types whose stubbed methods the code under test calls.
NextFacade ==
    \/ CallStubbedMethod
    \/ CallSetErrors
    \/ AssignDefaultError

SpecFacade == InitCleanup /\ [][NextFacade]_vars

(***************************************************************************)
(* Properties of the Stub.                                                 *)
(***************************************************************************)
\* C6: after N AddCall and MethodCall invocations Calls and Receivers have N
\* entries each; entry i of Calls holds the name and the arguments of the
\* i-th invocation, entry i of Receivers the receiver given to MethodCall, or
\* nil for AddCall.
C6_CallsRecordedInOrder ==
    /\ Len(Calls) = Len(made)
    /\ Len(Receivers) = Len(made)
    /\ \A i \in 1..Len(made) :
          /\ Calls[i] = StubCall(made[i].funcName, made[i].args)
          /\ Receivers[i] = IF made[i].method = "MethodCall" THEN made[i].receiver ELSE Nil

C6_Witness ==
    /\ Len(made) = 3
    /\ made[1] = made[2]
    /\ made[1].method = "AddCall"
    /\ made[3].method = "MethodCall"
    /\ Len(Calls) = 3
    /\ Calls[1] = Calls[2]
    /\ Receivers = <<Nil, Nil, StubAddr>>

\* C7: the j-th NextErr after SetErrors(e1..ek) returns ej when j <= k, a nil
\* ej as nil, and DefaultError when j > k.
C7_NextErrSequence ==
    stubOp = "NextErr" =>
        ret = IF nextCount <= Len(programmed)
              THEN programmed[nextCount]
              ELSE DefaultError

C7_Witness ==
    /\ stubOp = "NextErr"
    /\ nextCount = 3
    /\ programmed = <<Nil, ErrNames[2]>>
    /\ DefaultError = "failure"
    /\ ret = "failure"

\* C8: NextErr removes the head of a non-empty Errors and keeps the rest in
\* order, leaves an empty Errors empty, and leaves DefaultError unchanged.
C8_NextErrPops ==
    [][stubOp' = "NextErr" =>
          /\ Errors # <<>> =>
                /\ Len(Errors') = Len(Errors) - 1
                /\ \A i \in 1..Len(Errors') : Errors'[i] = Errors[i + 1]
          /\ Errors = <<>> => Errors' = <<>>
          /\ DefaultError' = DefaultError]_vars

C8_Witness ==
    /\ stubOp = "NextErr"
    /\ nextCount = 1
    /\ programmed = <<ErrNames[1], ErrNames[2]>>
    /\ Errors = <<ErrNames[2]>>

\* C9 as amended: when every call is recorded by a stubbed method that calls
\* NextErr once right after recording, the i-th call recorded since the last
\* SetErrors obtains the i-th error of the sequence given to it, and
\* DefaultError when i exceeds its length.
C9_ErrorOfCallSinceSetErrors ==
    stubOp = "StubbedMethod" =>
        ret = IF callsSinceSet <= Len(programmed)
              THEN programmed[callsSinceSet]
              ELSE DefaultError

\* C9 as stated: the i-th recorded call obtains the i-th error of the
\* sequence given to SetErrors, and DefaultError when i exceeds its length.
C9_ErrorOfRecordedCall ==
    stubOp = "StubbedMethod" =>
        ret = IF Len(Calls) <= Len(programmed)
              THEN programmed[Len(Calls)]
              ELSE DefaultError

C9_Witness ==
    /\ stubOp = "StubbedMethod"
    /\ Len(Calls) = 3
    /\ callsSinceSet = 2
    /\ programmed = <<Nil, ErrNames[2]>>
    /\ ret = ErrNames[2]
    /\ made[2].by # made[3].by

\* C10: the calls made through the two types sharing one Stub are in Calls in
\* the order they were made; Receivers[i] is the value the i-th call was made
\* on when its method records with MethodCall, and nil for aFunc, which
\* records with AddCall.
C10_SharedStubOrder ==
    /\ Len(Calls) = Len(made)
    /\ Len(Receivers) = Len(made)
    /\ \A i \in 1..Len(made) :
          made[i].by \in {"A", "B"} =>
              /\ Calls[i].FuncName = made[i].method
              /\ Receivers[i] = IF made[i].method = "aFunc" THEN Nil ELSE made[i].by

C10_Witness ==
    /\ Len(made) = 3
    /\ [i \in 1..3 |-> made[i].by] = <<"A", "B", "A">>
    /\ [i \in 1..3 |-> Calls[i].FuncName] = <<"aMethod", "aFunc", "otherMethod">>
    /\ Receivers = <<"A", Nil, "A">>

\* C11: SetErrors(errs...) makes Errors the sequence errs itself, the nil
\* placeholders, the trailing nils and the empty sequence included, whatever
\* errors were still pending; Calls, Receivers and DefaultError are unchanged.
C11_SetErrorsReplaces ==
    [][stubOp' = "SetErrors" =>
          /\ Errors' = programmed'
          /\ Calls' = Calls
          /\ Receivers' = Receivers
          /\ DefaultError' = DefaultError]_vars

C11_Witness ==
    /\ stubOp = "SetErrors"
    /\ dropped = 1
    /\ programmed = <<ErrNames[1], Nil>>
    /\ Errors = <<ErrNames[1], Nil>>
    /\ Len(Calls) = 1
    /\ DefaultError = "failure"

\* C12: CheckCalls(expected) reports no failure exactly when Calls has the
\* length of expected and the same FuncName and the same Args at every index,
\* whatever Receivers holds; it does not panic.
C12_CheckCallsExact ==
    stubOp = "CheckCalls" =>
        /\ checkPanic = NoPanic
        /\ failures = 0 <=>
              /\ Len(Calls) = Len(checked.expected)
              /\ \A i \in 1..Len(Calls) :
                    /\ Calls[i].FuncName = checked.expected[i].FuncName
                    /\ Calls[i].Args = checked.expected[i].Args

C12_Witness ==
    /\ stubOp = "CheckCalls"
    /\ failures = 1
    /\ Len(Calls) = 2
    /\ Receivers = <<StubAddr, Nil>>
    /\ stubCallNames(checked.expected) = stubCallNames(Calls)
    /\ checked.expected[1] = Calls[1]
    /\ checked.expected[2].Args # Calls[2].Args

\* C13: CheckCall with an index outside 0 .. len(Calls)-1, a negative index
\* included, reports a failed check and returns without panicking; with an
\* index inside it reports a failure exactly when the FuncName or the Args
\* recorded at that index differ from the given ones.
C13_CheckCallOutOfRange ==
    stubOp = "CheckCall" =>
        /\ checkPanic = NoPanic
        /\ IF checked.index \in 0..(Len(Calls) - 1)
           THEN failures >= 1 <=> Calls[checked.index + 1] # checked.call
           ELSE failures >= 1

\* C23: CheckCalls reports exactly one failed check when the names recorded
\* differ from the names expected, the comparison of the names, and makes no
\* other comparison; exactly one when the names are the same and some Args
\* differ, the comparison of the calls; none when the calls are the expected ones.
C23_CheckCallsNamesFirst ==
    stubOp = "CheckCalls" =>
        failures =
            IF stubCallNames(Calls) # stubCallNames(checked.expected) THEN 1
            ELSE IF \E i \in 1..Len(Calls) : Calls[i].Args # checked.expected[i].Args THEN 1
            ELSE 0

C23_Witness ==
    /\ stubOp = "CheckCalls"
    /\ failures = 1
    /\ Len(Calls) = 2
    /\ Len(checked.expected) = 2
    /\ checked.expected[1] = Calls[1]
    /\ checked.expected[2].FuncName # Calls[2].FuncName
    /\ checked.expected[2].Args = Calls[2].Args

\* C24: the history and the error queue are independent.  AddCall and
\* MethodCall leave Errors and DefaultError as they were; NextErr and SetErrors
\* leave Calls and Receivers as they were; CheckCalls, CheckCall and
\* CheckCallNames leave Calls, Receivers, Errors and DefaultError as they were,
\* whether the check passes, fails or panics.
C24_HistoryAndErrorsIndependent ==
    [][/\ stubOp' \in {"AddCall", "MethodCall"} =>
            /\ Errors' = Errors
            /\ DefaultError' = DefaultError
       /\ stubOp' \in {"NextErr", "SetErrors"} =>
            /\ Calls' = Calls
            /\ Receivers' = Receivers
       /\ stubOp' \in {"CheckCalls", "CheckCall", "CheckCallNames"} =>
            /\ Calls' = Calls
            /\ Receivers' = Receivers
            /\ Errors' = Errors
            /\ DefaultError' = DefaultError]_vars

\* A call recorded while an error is pending and DefaultError is set.
C24_Witness ==
    /\ stubOp = "MethodCall"
    /\ Len(Calls) = 2
    /\ Errors # <<>>
    /\ Errors = programmed
    /\ DefaultError # Nil

(***************************************************************************)
(* The legacy Fake of fake.go: a recorder of calls whose Error method      *)
(* fails one call, the one with the ordered index FailOnCall.              *)
(***************************************************************************)

\* The Fake as a value: the fields of the struct (fake.go:62-67).
Fake == [calls |-> fakeCalls, Err |-> Err, FailOnCall |-> FailOnCall]

\* FakeCall (fake.go:15-18).
FakeCall(funcName, args) == [FuncName |-> funcName, Args |-> args]

\* The faked methods of the example (fake.go:24-35) and their arguments.
FakedMethods == {"Send", "Recv"}

\* Error failing the call whose number, counted from 1, is FailOnCall.
FakeErrorCountingFromOne(f) ==
    IF Len(f.calls) # f.FailOnCall THEN Nil ELSE f.Err

\* Fake.Error (fake.go:72-77).
FakeError(f) ==
    IF Len(f.calls) # f.FailOnCall + 1 THEN Nil ELSE f.Err

\* Fake.AddCall (fake.go:81-86).
FakeAddCall(f, funcName, args) ==
    [f EXCEPT !.calls = Append(@, FakeCall(funcName, args))]

\* A faked method, as the type embedding the Fake defines it (fake.go:30-35):
\* it calls AddCall and returns what Error returns.
FakedMethod(f, funcName, args) ==
    LET g == FakeAddCall(f, funcName, args)
    IN  [f |-> g, err |-> FakeError(g)]

\* The code under test calls a faked method.
CallFakedMethod ==
    \E m \in FakedMethods :
        /\ Len(fakeRets) < MaxFakeCalls
        /\ LET r == FakedMethod(Fake, m, <<"request">>)
           IN  /\ fakeCalls' = r.f.calls
               /\ Err' = r.f.Err
               /\ FailOnCall' = r.f.FailOnCall
               /\ fakeRets' = Append(fakeRets, r.err)
        /\ fakeOp' = m
        /\ UNCHANGED <<cleanupVars, stubVars, hookVars, tagVars, osEnvVars, mgoVars>>

\* A Fake built with its two error fields set: Err nil or an error,
\* FailOnCall the index of one of the calls that follow, of none of them, or
\* a negative number.
InitFake ==
    /\ InitSuite /\ env = Unset /\ runner = "any" /\ InitStub /\ HookZero
    /\ TagZero /\ OsEnvZero /\ MgoZero
    /\ fakeCalls = <<>>
    /\ Err \in {Nil, "failure"}
    /\ FailOnCall \in -1..MaxFakeCalls
    /\ fakeRets = <<>>
    /\ fakeOp = "new"

NextFake == CallFakedMethod

SpecFake == InitFake /\ [][NextFake]_vars

\* C25: with Err an error and every faked method calling AddCall and then
\* Error, the call with the ordered index FailOnCall, the (FailOnCall+1)-th
\* call, is the one call that gets Err; every call before it and every call
\* after it gets nil.
C25_FailOnCallIndex ==
    Err # Nil =>
        \A j \in 1..Len(fakeRets) :
            fakeRets[j] = IF j - 1 = FailOnCall THEN Err ELSE Nil

\* The second of three calls failed.
C25_Witness ==
    /\ Err # Nil
    /\ FailOnCall = 1
    /\ fakeRets = <<Nil, Err, Nil>>

(***************************************************************************)
(* HookCommandOutput of cmd.go: the function a variable holds is replaced  *)
(* with one that sends each command on a channel and returns a configured  *)
(* result, until the restore function puts the former function back.       *)
(***************************************************************************)

\* The results a hook is configured with (cmd_test.go:25): output and err.
HookResults == {[output |-> <<1, 2, 3, 4>>, err |-> Nil],
                [output |-> <<>>, err |-> "exit status 1"]}

\* What the function test code put in the variable returns: the output of the
\* command it ran.
RealResult == [output |-> <<"real">>, err |-> Nil]

PanicSendClosed == "send on closed channel"
PanicCloseClosed == "close of closed channel"

\* The state the hooks work on.
HookState ==
    [outputFunc |-> outputFunc, hooks |-> hooks, HookChannelSize |-> HookChannelSize]

\* HookCommandOutput replacing the function without keeping the one it found:
\* its restore function puts back the function of test code.
HookCommandOutputForgetting(st, output, err) ==
    [st EXCEPT !.hooks = Append(@, [orig |-> 0, output |-> output,
                                    err |-> err, cmdChan |-> <<>>,
                                    size |-> st.HookChannelSize,
                                    closed |-> FALSE]),
               !.outputFunc = Len(st.hooks) + 1]

\* HookCommandOutput (cmd.go:181-195).
HookCommandOutput(st, output, err) ==
    [st EXCEPT !.hooks = Append(@, [orig |-> st.outputFunc, output |-> output,
                                    err |-> err, cmdChan |-> <<>>,
                                    size |-> st.HookChannelSize,
                                    closed |-> FALSE]),
               !.outputFunc = Len(st.hooks) + 1]

\* The restore function of hook h (cmd.go:186-189).  Closing a closed
\* channel panics, before the assignment.
restore(st, h) ==
    IF st.hooks[h].closed
    THEN [st |-> st, panic |-> PanicCloseClosed]
    ELSE [st |-> [st EXCEPT !.hooks[h].closed = TRUE,
                            !.outputFunc = st.hooks[h].orig],
          panic |-> NoPanic]

\* The function of hook h (cmd.go:190-193) called with cmd.  The send panics
\* on a closed channel and blocks on a full one.
hooked(st, h, cmd) ==
    IF st.hooks[h].closed
    THEN [st |-> st, how |-> "panic", result |-> RealResult]
    ELSE IF Len(st.hooks[h].cmdChan) >= st.hooks[h].size
    THEN [st |-> st, how |-> "blocked", result |-> RealResult]
    ELSE [st |-> [st EXCEPT !.hooks[h].cmdChan = Append(@, cmd)],
          how |-> "returned",
          result |-> [output |-> st.hooks[h].output, err |-> st.hooks[h].err]]

\* A call of *outputFunc: the command, the function called, how it ended
\* and what it returned.
OutputCall(cmd, fn, how, result) ==
    [cmd |-> cmd, fn |-> fn, how |-> how, result |-> result]

HookBecomes(st) ==
    /\ HookChannelSize' = st.HookChannelSize
    /\ outputFunc' = st.outputFunc
    /\ hooks' = st.hooks

\* testing.HookCommandOutput(&CommandOutput, output, err) (cmd_test.go:25).
CallHookCommandOutput ==
    \E r \in HookResults :
        /\ sending = NoSend
        /\ Len(hooks) < MaxHooks
        /\ HookBecomes(HookCommandOutput(HookState, r.output, r.err))
        /\ received' = Append(received, <<>>)
        /\ hookedWith' = Append(hookedWith, [before |-> outputFunc, output |-> r.output,
                                             err |-> r.err])
        /\ hookOp' = HookOp("HookCommandOutput", Len(hooks) + 1)
        /\ hookPanic' = NoPanic
        /\ UNCHANGED <<sending, outputCalls>>
        /\ UNCHANGED <<cleanupVars, stubVars, fakeVars, tagVars, osEnvVars, mgoVars>>

\* CommandOutput(testCmd) (cmd_test.go:28-29): each call is given a command
\* of its own, exec.Command(...), here the number of the call.
CallOutputFunc ==
    LET cmd == Len(outputCalls) + 1
    IN  /\ sending = NoSend
        /\ Len(outputCalls) < MaxHookCalls
        /\ IF outputFunc = 0
           THEN /\ outputCalls' = Append(outputCalls,
                                         OutputCall(cmd, 0, "returned", RealResult))
                /\ hookPanic' = NoPanic
                /\ UNCHANGED <<HookChannelSize, outputFunc, hooks, sending>>
           ELSE LET r == hooked(HookState, outputFunc, cmd)
                IN  /\ HookBecomes(r.st)
                    /\ IF r.how = "blocked"
                       THEN /\ sending' = [cmd |-> cmd, hook |-> outputFunc]
                            /\ UNCHANGED outputCalls
                       ELSE /\ sending' = NoSend
                            /\ outputCalls' = Append(outputCalls,
                                    OutputCall(cmd, outputFunc, r.how, r.result))
                    /\ hookPanic' = IF r.how = "panic" THEN PanicSendClosed ELSE NoPanic
        /\ hookOp' = HookOp("outputFunc", outputFunc)
        /\ UNCHANGED <<received, hookedWith>>
        /\ UNCHANGED <<cleanupVars, stubVars, fakeVars, tagVars, osEnvVars, mgoVars>>

\* cmd := <-cmdChan (cmd_test.go:31), in the test or in a goroutine of it: the
\* oldest command leaves the channel of hook h, and a send blocked on this
\* channel goes through, so that the blocked call returns.
Receive ==
    \E h \in 1..Len(hooks) :
        /\ hooks[h].cmdChan # <<>>
        /\ received' = [received EXCEPT ![h] = Append(@, Head(hooks[h].cmdChan))]
        /\ IF sending.hook = h
           THEN /\ hooks' = [hooks EXCEPT ![h].cmdChan = Append(Tail(@), sending.cmd)]
                /\ outputCalls' = Append(outputCalls,
                        OutputCall(sending.cmd, h, "returned",
                                   [output |-> hooks[h].output, err |-> hooks[h].err]))
                /\ sending' = NoSend
           ELSE /\ hooks' = [hooks EXCEPT ![h].cmdChan = Tail(@)]
                /\ UNCHANGED <<outputCalls, sending>>
        /\ hookOp' = HookOp("receive", h)
        /\ hookPanic' = NoPanic
        /\ UNCHANGED <<HookChannelSize, outputFunc, hookedWith>>
        /\ UNCHANGED <<cleanupVars, stubVars, fakeVars, tagVars, osEnvVars, mgoVars>>

\* cleanup() (cmd_test.go:26), or the cleanup function CleanupSuite's
\* HookCommandOutput registered (cleanup.go:121-122) run by a teardown.
CallRestore ==
    \E h \in 1..Len(hooks) :
        /\ sending = NoSend
        /\ LET r == restore(HookState, h)
           IN  /\ HookBecomes(r.st)
               /\ hookPanic' = r.panic
        /\ hookOp' = HookOp("restore", h)
        /\ UNCHANGED <<sending, received, outputCalls, hookedWith>>
        /\ UNCHANGED <<cleanupVars, stubVars, fakeVars, tagVars, osEnvVars, mgoVars>>

\* The capacities test code gives the channels: the 10 the variable is
\* declared with (cmd.go:175), or one it assigned before hooking.
ChannelSizes == {1, 10}

InitHook ==
    /\ InitSuite /\ env = Unset /\ runner = "any" /\ InitStub /\ FakeZero
    /\ TagZero /\ OsEnvZero /\ MgoZero
    /\ HookChannelSize \in ChannelSizes
    /\ outputFunc = 0
    /\ hooks = <<>>
    /\ sending = NoSend
    /\ received = <<>>
    /\ outputCalls = <<>>
    /\ hookedWith = <<>>
    /\ hookOp = HookOp("new", 0)
    /\ hookPanic = NoPanic

NextHook ==
    \/ CallHookCommandOutput
    \/ CallOutputFunc
    \/ Receive
    \/ CallRestore

SpecHook == InitHook /\ [][NextHook]_vars

\* The commands of the calls of the function of hook h that returned, in
\* call order.
SentTo(h) ==
    LET ofHook(c) == c.fn = h /\ c.how = "returned"
        cs == SelectSeq(outputCalls, ofHook)
    IN  [i \in 1..Len(cs) |-> cs[i].cmd]

\* C26: every call of *outputFunc made while it holds the function of a hook,
\* once it returned, returned the output and err the hook was made with, and
\* the commands of these calls are on the channel of the hook in call order:
\* they are the commands received from it followed by the commands still
\* buffered in it.  A restore function that returned has put back the
\* function *outputFunc held when its hook was made.
C26_HookSendsAndRestores ==
    /\ [](\A h \in 1..Len(hooks) :
            /\ SentTo(h) = received[h] \o hooks[h].cmdChan
            /\ \A i \in 1..Len(outputCalls) :
                   (outputCalls[i].fn = h /\ outputCalls[i].how = "returned") =>
                       /\ outputCalls[i].result.output = hookedWith[h].output
                       /\ outputCalls[i].result.err = hookedWith[h].err)
    /\ [][(hookOp'.name = "restore" /\ hookPanic' = NoPanic) =>
               outputFunc' = hookedWith[hookOp'.hook].before]_vars

\* A hook put on a hooked function and restored: one call went to each hook,
\* the command of the inner one was received, and the function of the outer
\* hook is back.
C26_Witness ==
    /\ hookOp = HookOp("restore", 2)
    /\ hookPanic = NoPanic
    /\ outputFunc = 1
    /\ SentTo(1) = <<1>>
    /\ SentTo(2) = <<2>>
    /\ received[2] = <<2>>
    /\ hookedWith[1].err # hookedWith[2].err

(***************************************************************************)
(* The test tags of tags.go: the --tags flags of the command line are      *)
(* parsed into groups of required tags, and a tagged test runs when        *)
(* CheckTag finds a match for its tags in every group.                     *)
(***************************************************************************)

\* defaultTags and smokeTags (tags.go:58-66).
defaultTags == <<"small", "large", "functional">>
smokeTags == <<"small">>

\* The values of the --tags flags of the command lines, each as
\* strings.Split(raw, ",") cuts it (tags.go:127): "medium", "-functional",
\* "small,medium,-functional" (tags.go:20-30), "" and "functional,,small".
RawFlags == {<<"medium">>, <<"-functional">>, <<"small", "medium", "-functional">>,
             <<"">>, <<"functional", "", "small">>}

\* The sequences of at most n elements of S.
SeqsUpTo(S, n) == UNION {[1..k -> S] : k \in 0..n}

\* The tags a test is tagged with.
TagNames == {"small", "medium", "functional"}

\* The concatenation of the sequences of a sequence.
RECURSIVE Flatten(_)
Flatten(ss) == IF ss = <<>> THEN <<>> ELSE Head(ss) \o Flatten(Tail(ss))

\* parseTags (tags.go:124-136): the entries of the raw values that are not empty.
parseTags(rawList) ==
    LET notEmpty(entry) == entry # ""
    IN  SelectSeq(Flatten(rawList), notEmpty)

\* handleCommandline (tags.go:101-122).
handleCommandline(rawList, smoke) ==
    LET groups == [i \in 1..Len(rawList) |-> parseTags(<<rawList[i]>>)]
        kept(parsed) == Len(parsed) # 0
        keptGroups == SelectSeq(groups, kept)
        parsedTags == [i \in 1..Len(keptGroups) |->
                          IF smoke THEN keptGroups[i] \o smokeTags ELSE keptGroups[i]]
    IN  IF Len(parsedTags) = 0
        THEN IF smoke THEN <<smokeTags>> ELSE <<defaultTags>>
        ELSE parsedTags

\* tagsValue.parse (tags.go:94-99): the value after the call; its field
\* parsed is what the call returns.
parse(v) ==
    IF v.parsed = <<>>
    THEN [v EXCEPT !.parsed = handleCommandline(v.raw, v.smoke)]
    ELSE v

\* The loops of MatchTag from the i-th required tag and the j-th tag on.
RECURSIVE MatchFrom(_, _, _, _)
MatchFrom(requiredTags, tags, i, j) ==
    IF i > Len(requiredTags) THEN ""
    ELSE IF j > Len(tags) THEN MatchFrom(requiredTags, tags, i + 1, 1)
    ELSE LET required == requiredTags[i]
             tag == tags[j]
         IN  IF required = "" THEN MatchFrom(requiredTags, tags, i, j + 1)
             ELSE IF required = "-" \o tag THEN ""
             ELSE IF tag = required THEN tag
             ELSE MatchFrom(requiredTags, tags, i, j + 1)

\* MatchTag (tags.go:153-168).  `required[0] == '-' && tag == required[1:]`
\* is: required is "-" followed by tag.
MatchTag(requiredTags, tags) == MatchFrom(requiredTags, tags, 1, 1)

\* CheckTag (tags.go:140-147) on the groups parse returned.
CheckTag(parsed, tags) ==
    \A i \in 1..Len(parsed) : MatchTag(parsed[i], tags) # ""

\* The lists of required tags test code gives to MatchTag: the groups of the
\* flags, and the default tags.
RequiredLists == {parseTags(<<raw>>) : raw \in RawFlags} \cup {defaultTags}

\* testing.CheckTag(tags...) (called by RequireTag, SuiteTagged and
\* RegisterPackageTagged, tags.go:172-193).
CallCheckTag ==
    \E tags \in SeqsUpTo(TagNames, MaxTags) :
        /\ rawTags' = parse(rawTags)
        /\ tagged' = CheckTag(rawTags'.parsed, tags)
        /\ tagOp' = TagOp("CheckTag", <<>>, tags)
        /\ matched' = ""
        /\ UNCHANGED <<cleanupVars, stubVars, fakeVars, hookVars, osEnvVars, mgoVars>>

\* testing.MatchTag(requiredTags, tags...).
CallMatchTag ==
    \E requiredTags \in RequiredLists, tags \in SeqsUpTo(TagNames, MaxTags) :
        /\ matched' = MatchTag(requiredTags, tags)
        /\ tagOp' = TagOp("MatchTag", requiredTags, tags)
        /\ tagged' = FALSE
        /\ UNCHANGED rawTags
        /\ UNCHANGED <<cleanupVars, stubVars, fakeVars, hookVars, osEnvVars, mgoVars>>

\* The flags of the command line have been handed to rawTags (tagsValue.Set,
\* tags.go:84-87, and the --smoke flag); nothing has been parsed.
InitTags ==
    /\ InitSuite /\ env = Unset /\ runner = "any" /\ InitStub /\ FakeZero
    /\ HookZero /\ OsEnvZero /\ MgoZero
    /\ \E raw \in SeqsUpTo(RawFlags, MaxFlags), smoke \in BOOLEAN :
           rawTags = [raw |-> raw, smoke |-> smoke, parsed |-> <<>>]
    /\ tagOp = TagOp("none", <<>>, <<>>)
    /\ tagged = FALSE
    /\ matched = ""

NextTags ==
    \/ CallCheckTag
    \/ CallMatchTag

SpecTags == InitTags /\ [][NextTags]_vars

\* The tags of a sequence, as a set.
TagSet(tags) == {tags[i] : i \in 1..Len(tags)}

\* C27: with the two groups [medium] and [-functional], parsed from two
\* --tags flags, CheckTag is true for exactly the tag sets that contain medium
\* and do not contain functional.
C27_MediumNotFunctional ==
    (/\ tagOp.name = "CheckTag"
     /\ rawTags.parsed = << <<"medium">>, <<"-functional">> >>) =>
        (tagged <=> ("medium" \in TagSet(tagOp.tags)
                     /\ "functional" \notin TagSet(tagOp.tags)))

\* C28: for a list of required tags with no exclusion, MatchTag returns the
\* earliest of the tags given that occurs in the list, and "" when none does.
C28_FirstProvidedTag ==
    (/\ tagOp.name = "MatchTag"
     /\ \A r \in TagSet(tagOp.required) : r \in TagNames \cup {"large"}) =>
        LET hits == {j \in 1..Len(tagOp.tags) : tagOp.tags[j] \in TagSet(tagOp.required)}
        IN  matched = IF hits = {} THEN ""
                      ELSE tagOp.tags[CHOOSE j \in hits : \A k \in hits : j <= k]

(***************************************************************************)
(* The OsEnvSuite of osenv.go: SetUpSuite saves the environment of the     *)
(* process and empties it, SetUpTest empties it again, TearDownSuite puts  *)
(* the saved environment back.  A string is the sequence of its pieces,    *)
(* the "=" signs being pieces of their own; a map is a function.           *)
(***************************************************************************)

\* The names of the variables of the process: one of the whitelist of
\* Windows, one of no whitelist, and the one the tests set
\* (osenv_test.go:26, 40).
EnvNames == {<<"TEMP">>, <<"TESTING_OSENV_ORIGINAL">>, <<"TESTING_OSENV_NEW">>}

\* The values of the variables: "", "value" and "a=b".
EnvValues == {<<>>, <<"value">>, <<"a", "=", "b">>}

\* windowsVariables (osenv.go:23-61), the names of it the process has.
windowsVariables == {<<"TEMP">>}

\* The map m with m[name] = value.
MapSet(m, name, value) ==
    [n \in DOMAIN m \cup {name} |-> IF n = name THEN value ELSE m[n]]

\* The map m without the entry of name.
MapDelete(m, name) == [n \in DOMAIN m \ {name} |-> m[n]]

\* os.Environ(): the strings "name=value" of the variables that are set.
Environ(e) == {n \o <<"=">> \o e[n] : n \in DOMAIN e}

\* strings.SplitN(envvar, "=", 2) (osenv.go:89): the string before the first
\* "=" and the string after it.
SplitN2(envvar) ==
    LET i == CHOOSE k \in 1..Len(envvar) :
                 /\ envvar[k] = "="
                 /\ \A j \in 1..(k - 1) : envvar[j] # "="
    IN  <<SubSeq(envvar, 1, i - 1), SubSeq(envvar, i + 1, Len(envvar))>>

\* setEnviron (osenv.go:63-76) on the environment e.
setEnviron(old, e, goos) ==
    LET envList == IF goos = "windows" THEN windowsVariables ELSE {}
        kept == {n \in envList : n \in DOMAIN old}
    IN  [n \in DOMAIN e \cup kept |-> IF n \in kept THEN old[n] ELSE e[n]]

\* osDependendClearenv (osenv.go:80-84): the environment after it.
osDependendClearenv(old, goos) == setEnviron(old, NoEnv, goos)

\* The map SetUpSuite makes (osenv.go:87-91) of the environment e.
SavedEnvironment(e) ==
    LET parts == {SplitN2(envvar) : envvar \in Environ(e)}
    IN  [n \in {p[1] : p \in parts} |->
            (CHOOSE p \in parts : p[1] = n)[2]]

\* TearDownSuite setting the saved variables in the environment as it is.
OsEnvTearDownSuiteNoClearenv(old, e) ==
    [n \in DOMAIN e \cup DOMAIN old |-> IF n \in DOMAIN old THEN old[n] ELSE e[n]]

\* TearDownSuite (osenv.go:95-100): the environment after it.
OsEnvTearDownSuite(old, e) ==
    [n \in DOMAIN old |-> old[n]]

\* OsEnvSuite.SetUpSuite (osenv.go:86-93).
CallOsEnvSetUpSuite ==
    /\ osEnvAt \in {"new", "done"}
    /\ oldEnvironment' = SavedEnvironment(environ)
    /\ environ' = osDependendClearenv(oldEnvironment', GOOS)
    /\ atSetUpSuite' = environ
    /\ written' = {}
    /\ osEnvAt' = "suite"
    /\ osEnvOp' = "SetUpSuite"
    /\ UNCHANGED GOOS
    /\ UNCHANGED <<cleanupVars, stubVars, fakeVars, hookVars, tagVars, mgoVars>>

\* OsEnvSuite.SetUpTest (osenv.go:102-104).
CallOsEnvSetUpTest ==
    /\ osEnvAt = "suite"
    /\ environ' = osDependendClearenv(oldEnvironment, GOOS)
    /\ osEnvAt' = "test"
    /\ osEnvOp' = "SetUpTest"
    /\ UNCHANGED <<oldEnvironment, GOOS, atSetUpSuite, written>>
    /\ UNCHANGED <<cleanupVars, stubVars, fakeVars, hookVars, tagVars, mgoVars>>

\* OsEnvSuite.TearDownTest (osenv.go:106-107).
CallOsEnvTearDownTest ==
    /\ osEnvAt = "test"
    /\ osEnvAt' = "suite"
    /\ osEnvOp' = "TearDownTest"
    /\ UNCHANGED <<oldEnvironment, environ, GOOS, atSetUpSuite, written>>
    /\ UNCHANGED <<cleanupVars, stubVars, fakeVars, hookVars, tagVars, mgoVars>>

\* OsEnvSuite.TearDownSuite (osenv.go:95-100).
CallOsEnvTearDownSuite ==
    /\ osEnvAt = "suite"
    /\ environ' = OsEnvTearDownSuite(oldEnvironment, environ)
    /\ osEnvAt' = "done"
    /\ osEnvOp' = "TearDownSuite"
    /\ UNCHANGED <<oldEnvironment, GOOS, atSetUpSuite, written>>
    /\ UNCHANGED <<cleanupVars, stubVars, fakeVars, hookVars, tagVars, mgoVars>>

\* os.Setenv(name, value) in a test or between the tests (osenv_test.go:40).
Setenv ==
    \E name \in EnvNames, value \in EnvValues :
        /\ osEnvAt \in {"suite", "test"}
        /\ environ' = MapSet(environ, name, value)
        /\ written' = written \cup {name}
        /\ osEnvOp' = "Setenv"
        /\ UNCHANGED <<oldEnvironment, GOOS, osEnvAt, atSetUpSuite>>
        /\ UNCHANGED <<cleanupVars, stubVars, fakeVars, hookVars, tagVars, mgoVars>>

\* os.Unsetenv(name) in a test or between the tests.
Unsetenv ==
    \E name \in EnvNames :
        /\ osEnvAt \in {"suite", "test"}
        /\ environ' = MapDelete(environ, name)
        /\ written' = written \cup {name}
        /\ osEnvOp' = "Unsetenv"
        /\ UNCHANGED <<oldEnvironment, GOOS, osEnvAt, atSetUpSuite>>
        /\ UNCHANGED <<cleanupVars, stubVars, fakeVars, hookVars, tagVars, mgoVars>>

\* The environments of a process: some of the names set, each to a value.
Environments == UNION {[D -> EnvValues] : D \in SUBSET EnvNames}

\* A new OsEnvSuite in a process with some environment, on Linux or Windows.
InitOsEnv ==
    /\ InitSuite /\ env = Unset /\ runner = "any" /\ InitStub /\ FakeZero
    /\ HookZero /\ TagZero /\ MgoZero
    /\ oldEnvironment = NoEnv
    /\ environ \in Environments
    /\ GOOS \in {"linux", "windows"}
    /\ osEnvAt = "new"
    /\ osEnvOp = "new"
    /\ atSetUpSuite = NoEnv
    /\ written = {}

NextOsEnv ==
    \/ CallOsEnvSetUpSuite
    \/ CallOsEnvSetUpTest
    \/ CallOsEnvTearDownTest
    \/ CallOsEnvTearDownSuite
    \/ Setenv
    \/ Unsetenv

SpecOsEnv == InitOsEnv /\ [][NextOsEnv]_vars

\* C29: after SetUpSuite, any number of SetUpTest / TearDownTest with writes
\* of the environment in between, and TearDownSuite, the environment of the
\* process is the one SetUpSuite found: every variable it had has the value
\* it had, and no other variable is set.
C29_EnvironmentRoundTrip ==
    osEnvAt = "done" =>
        /\ \A n \in DOMAIN atSetUpSuite :
               n \in DOMAIN environ /\ environ[n] = atSetUpSuite[n]
        /\ \A n \in EnvNames : n \notin DOMAIN atSetUpSuite => n \notin DOMAIN environ

\* A variable with "=" in its value is back, one that was set in a test is
\* gone, both written in between.
C29_Witness ==
    /\ osEnvAt = "done"
    /\ DOMAIN atSetUpSuite = {<<"TEMP">>, <<"TESTING_OSENV_ORIGINAL">>}
    /\ environ[<<"TESTING_OSENV_ORIGINAL">>] = <<"a", "=", "b">>
    /\ environ[<<"TEMP">>] = <<>>
    /\ written = {<<"TESTING_OSENV_ORIGINAL">>, <<"TESTING_OSENV_NEW">>}

(***************************************************************************)
(* The MgoInstance of mgo.go: Start runs mongod on a port it picks, again  *)
(* on another port when the port was taken; EnsureRunning starts an        *)
(* instance that has no address; Destroy kills mongod.                     *)
(***************************************************************************)

\* How one run of mongod goes (mgo.go:290-424): it listens; it finds its port
\* in use (381-383); it fails to start or to listen for another reason
\* (402-411); or it listens and replSetInitiate fails (418-420).
RunOutcomes == {"listening", "in use", "failed", "replSetInitiate failed"}

PanicAlreadyRunning == "mongo server is already running"

\* The port FindTCPPort (mgo.go:1076-1083) returns for the i-th attempt.
FindTCPPort(i) == 37000 + i

\* run (mgo.go:290-424) with the given outcome: the instance after it, the
\* error it returns and its panic.
run(m, outcome) ==
    IF m.server # Nil
    THEN [inst |-> m, err |-> Nil, panic |-> PanicAlreadyRunning]
    ELSE IF outcome = "in use"
    THEN [inst |-> m, err |-> "in use", panic |-> NoPanic]
    ELSE IF outcome = "failed"
    THEN [inst |-> m, err |-> "failed", panic |-> NoPanic]
    ELSE IF m.EnableReplicaSet /\ outcome = "replSetInitiate failed"
    THEN [inst |-> [m EXCEPT !.server = "mongod"], err |-> "replSetInitiate failed",
          panic |-> NoPanic]
    ELSE [inst |-> [m EXCEPT !.server = "mongod"], err |-> Nil, panic |-> NoPanic]

\* The loop of Start (mgo.go:265-285) from its i-th attempt on, err being the
\* error of the attempt before.
RECURSIVE StartFrom(_, _, _, _)
StartFrom(m, outcomes, i, err) ==
    IF i > maxStartMongodAttempts
    THEN [inst |-> m, err |-> err, panic |-> NoPanic]
    ELSE LET set == [m EXCEPT !.port = FindTCPPort(i),
                              !.addr = "localhost:" \o ToString(FindTCPPort(i)),
                              !.dir = "test-mgo"]
             r == run(set, outcomes[i])
         IN  IF r.panic # NoPanic THEN r
             ELSE IF r.err = "in use"
             THEN StartFrom(r.inst, outcomes, i + 1, r.err)
             ELSE IF r.err = Nil THEN r
             ELSE [inst |-> [r.inst EXCEPT !.addr = "", !.port = 0, !.dir = ""],
                   err |-> r.err, panic |-> NoPanic]

\* Start (mgo.go:212-286).  early is the error that makes it return before
\* the loop (no mongod installed, 214-217; no directory or no key file,
\* 219-261), Nil for none.
Start(m, early, outcomes) ==
    IF early # Nil
    THEN [inst |-> m, err |-> early, panic |-> NoPanic]
    ELSE StartFrom(m, outcomes, 1, Nil)

\* EnsureRunning (mgo.go:979-988).
EnsureRunning(m, early, outcomes) ==
    IF m.addr = ""
    THEN Start(m, early, outcomes)
    ELSE [inst |-> m, err |-> Nil, panic |-> NoPanic]

\* killAndCleanup (mgo.go:536-543), with kill (529-534).
killAndCleanup(m) ==
    IF m.server # Nil
    THEN [m EXCEPT !.server = Nil, !.addr = "", !.dir = ""]
    ELSE m

\* Destroy (mgo.go:546-548).
Destroy(m) == killAndCleanup(m)

\* What stops Start before its first attempt.
EarlyErrors == {Nil, "mongod not found", "cannot write key file"}

\* How the attempts of one Start go: the port is in use in every attempt but
\* the last one made, which goes any way.
AttemptOutcomes ==
    {[i \in 1..n |-> IF i < n THEN "in use" ELSE last] :
        n \in 1..maxStartMongodAttempts, last \in RunOutcomes \ {"in use"}}
    \cup {[i \in 1..maxStartMongodAttempts |-> "in use"]}

MgoBecomes(r) ==
    /\ inst' = r.inst
    /\ mgoErr' = r.err
    /\ mgoPanic' = r.panic

\* inst.Start(certs) (MgoTestPackage, mgo.go:563-569).
CallStart ==
    \E early \in EarlyErrors, outcomes \in AttemptOutcomes :
        /\ mgoOps < MaxMgoOps
        /\ early # Nil => outcomes = <<"listening">>
        /\ MgoBecomes(Start(inst, early, outcomes))
        /\ mgoOp' = MgoOp("Start", early, outcomes)
        /\ mgoOps' = mgoOps + 1
        /\ UNCHANGED <<cleanupVars, stubVars, fakeVars, hookVars, tagVars, osEnvVars>>

\* inst.EnsureRunning() (MgoInstance.Reset, mgo.go:865-866; MgoSuite.TearDownTest, 990-995).
CallEnsureRunning ==
    \E early \in EarlyErrors, outcomes \in AttemptOutcomes :
        /\ mgoOps < MaxMgoOps
        /\ (early # Nil \/ inst.addr # "") => outcomes = <<"listening">>
        /\ inst.addr # "" => early = Nil
        /\ MgoBecomes(EnsureRunning(inst, early, outcomes))
        /\ mgoOp' = MgoOp("EnsureRunning", early, outcomes)
        /\ mgoOps' = mgoOps + 1
        /\ UNCHANGED <<cleanupVars, stubVars, fakeVars, hookVars, tagVars, osEnvVars>>

\* inst.Destroy() (MgoTestPackage, mgo.go:563-569).
CallDestroy ==
    /\ mgoOps < MaxMgoOps
    /\ inst' = Destroy(inst)
    /\ mgoErr' = Nil
    /\ mgoPanic' = NoPanic
    /\ mgoOp' = MgoOp("Destroy", Nil, <<>>)
    /\ mgoOps' = mgoOps + 1
    /\ UNCHANGED <<cleanupVars, stubVars, fakeVars, hookVars, tagVars, osEnvVars>>

\* A new MgoInstance, with or without a replica set.
InitMgo ==
    /\ InitSuite /\ env = Unset /\ runner = "any" /\ InitStub /\ FakeZero
    /\ HookZero /\ TagZero /\ OsEnvZero
    /\ \E replicaSet \in BOOLEAN : inst = NewMgoInstance(replicaSet)
    /\ mgoOp = MgoOp("new", Nil, <<>>)
    /\ mgoErr = Nil
    /\ mgoPanic = NoPanic
    /\ mgoOps = 0

NextMgo ==
    \/ CallStart
    \/ CallEnsureRunning
    \/ CallDestroy

SpecMgo == InitMgo /\ [][NextMgo]_vars

\* C30: whenever Start returns an error, the instance is left not started:
\* its address is "" and it holds no server.
C30_FailedStartLeavesNotStarted ==
    (mgoOp.name = "Start" /\ mgoPanic = NoPanic /\ mgoErr # Nil) =>
        /\ inst.addr = ""
        /\ inst.server = Nil

====
